---- MODULE Spec2Model ----
(***************************************************************************)
(* Retrieval pipeline of the external-memory system: the FAISS-backed      *)
(* VectorStore (backend/src/vector_store.py), the embedder cache           *)
(* (backend/src/embedding.py) and the SemanticRetriever (src/retrieval.py).*)
(*                                                                         *)
(* Numbers.  float32 values are modelled in fixed point: a vector          *)
(* component c stands for c / Scale, a score s (inner product or squared   *)
(* distance) stands for s / (Scale * Scale).  The vectors used have        *)
(* integer norms that divide Scale, so normalisation is exact.             *)
(*                                                                         *)
(* Python values.  None is the record [isNone |-> TRUE]; a dict is the set *)
(* of its <<key, value>> pairs; a numpy 2-D array is [d, rows]; a raised   *)
(* exception is reported by its class name in the field `raised`.  A call  *)
(* that is handed a numpy array reports, next to its result, what the      *)
(* caller's array holds when the call is over.                             *)
(*                                                                         *)
(* Strings.  The texts stored in the index are opaque values; a str whose  *)
(* characters matter (chunking, de-duplication, the context budget) is the *)
(* sequence of its characters, each a one-character string.  In a str      *)
(* built by formatting, a literal fragment of the source is one element.   *)
(* The texts handed to the memory system (main.py) are scaled: one         *)
(* character of the model stands for CharScale characters of the text.     *)
(***************************************************************************)
EXTENDS Integers, Sequences, FiniteSets, TLC

VARIABLES store, disk, backup, cache, chunker, upload, call, last

vars == <<store, disk, backup, cache, chunker, upload, call, last>>

(* ----------------------------- bounds ---------------------------------- *)

\* largest number of chunks the model lets a store hold
MaxStored == 2

\* largest k passed to search / retrieve
MaxK == 2

\* largest number of chunks ingested into the store behind a retriever
MaxIngested == 3

\* longest candidate list handed to deduplicate_chunks
MaxDedup == 3

\* longest candidate list handed to truncate_to_fit
MaxCandidates == 3

\* largest max_length handed to truncate_to_fit
MaxBudget == 4

\* largest number of words in a text handed to chunk_by_words
MaxWords == 5

\* largest number of sentences in a text handed to chunk_by_sentences
MaxSentences == 4

\* largest max_retries handed to generate_with_retry
MaxRetries == 4

\* most chunks of a store saved into the other directory
MaxBackupChunks == 1

\* the longest conversation history handed to the assembler
MaxHistory == 2

(* ------------------------- python helpers ------------------------------ *)

None == [isNone |-> TRUE]

Some(x) == [isNone |-> FALSE, v |-> x]

NoError == "None"

\* the empty dict {}
EmptyDict == {}

Range(s) == {s[i] : i \in 1..Len(s)}

Min(a, b) == IF a < b THEN a ELSE b

\* s[:n] for 0 <= n
Prefix(s, n) == SubSeq(s, 1, Min(n, Len(s)))

\* a local variable: v is computed once and F is applied to its value
Bind(v, F(_)) == CHOOSE out \in {F(x) : x \in {v}} : TRUE

(* ------------------------------ str ------------------------------------ *)

\* the ASCII characters for which str.isspace() holds: the space, \n, \t,
\* \r, \f, the vertical tab (0x0b) and the separators 0x1c to 0x1f
WhitespaceChars ==
    {" ", "\n", "\t", "\r", "\f", "", "", "", "", ""}

LowerLetters ==
    <<"a", "b", "c", "d", "e", "f", "g", "h", "i", "j", "k", "l", "m",
      "n", "o", "p", "q", "r", "s", "t", "u", "v", "w", "x", "y", "z">>

UpperLetters ==
    <<"A", "B", "C", "D", "E", "F", "G", "H", "I", "J", "K", "L", "M",
      "N", "O", "P", "Q", "R", "S", "T", "U", "V", "W", "X", "Y", "Z">>

DigitChars == <<"0", "1", "2", "3", "4", "5", "6", "7", "8", "9">>

\* the characters \w matches, among the ASCII characters
WordChars ==
    {LowerLetters[j] : j \in 1..26} \cup {UpperLetters[j] : j \in 1..26}
    \cup {DigitChars[j] : j \in 1..10} \cup {"_"}

\* str.lower() on one character: every capital goes to its small letter
LowerChar(ch) ==
    IF \E j \in 1..26 : UpperLetters[j] = ch
    THEN LowerLetters[CHOOSE j \in 1..26 : UpperLetters[j] = ch]
    ELSE ch

\* text.lower()
lower(text) == [i \in 1..Len(text) |-> LowerChar(text[i])]

\* re.sub(r'[^\w\s]', '', text)
StripPunct(text) ==
    SelectSeq(text, LAMBDA ch : ch \in WordChars \cup WhitespaceChars)

\* text.strip()
RECURSIVE lstrip(_)
lstrip(text) ==
    IF text # <<>> /\ Head(text) \in WhitespaceChars THEN lstrip(Tail(text)) ELSE text

RECURSIVE rstrip(_)
rstrip(text) ==
    IF text # <<>> /\ text[Len(text)] \in WhitespaceChars
    THEN rstrip(SubSeq(text, 1, Len(text) - 1)) ELSE text

strip(text) == rstrip(lstrip(text))

\* text.split(): the maximal runs of non-whitespace characters, from
\* position i on, cur being the run read so far
RECURSIVE SplitFrom(_, _, _)
SplitFrom(text, i, cur) ==
    IF i > Len(text) THEN (IF cur = <<>> THEN <<>> ELSE <<cur>>)
    ELSE IF text[i] \in WhitespaceChars
         THEN (IF cur = <<>> THEN <<>> ELSE <<cur>>) \o SplitFrom(text, i + 1, <<>>)
         ELSE SplitFrom(text, i + 1, Append(cur, text[i]))

split(text) == SplitFrom(text, 1, <<>>)

\* sep.join(parts)
RECURSIVE join(_, _)
join(sep, parts) ==
    IF parts = <<>> THEN <<>>
    ELSE IF Len(parts) = 1 THEN parts[1]
    ELSE parts[1] \o sep \o join(sep, Tail(parts))

(* ------------------------- fixed-point floats -------------------------- *)

Scale == 5

\* value of the padding distance in a FAISS result row
FltMax == 1000000

RECURSIVE SumSeq(_)
SumSeq(s) == IF s = <<>> THEN 0 ELSE Head(s) + SumSeq(Tail(s))

Dot(x, y) == SumSeq([i \in 1..Len(x) |-> x[i] * y[i]])

L2Sqr(x, y) == SumSeq([i \in 1..Len(x) |-> (x[i] - y[i]) * (x[i] - y[i])])

\* floor of the square root, searched upwards from r
RECURSIVE ISqrtFrom(_, _)
ISqrtFrom(n, r) == IF (r + 1) * (r + 1) > n THEN r ELSE ISqrtFrom(n, r + 1)

ISqrt(n) == ISqrtFrom(n, 0)

\* faiss.normalize_L2 on one row: a zero row is left as it is
normalize_L2(x) ==
    LET nr == ISqrt(Dot(x, x))
    IN  IF nr = 0 THEN x ELSE [i \in 1..Len(x) |-> (x[i] * Scale) \div nr]

(* --------------------------- FAISS index ------------------------------- *)

IndexFlatL2(d) == [d |-> d, metric |-> "L2", xb |-> <<>>]

IndexFlatIP(d) == [d |-> d, metric |-> "IP", xb |-> <<>>]

\* index.add(x): the wrapper asserts the row width
index_add(index, x) ==
    IF x.d # index.d
    THEN [raised |-> "AssertionError", index |-> index]
    ELSE [raised |-> NoError, index |-> [index EXCEPT !.xb = @ \o x.rows]]

Score(index, id, q) ==
    IF index.metric = "L2" THEN L2Sqr(index.xb[id + 1], q)
    ELSE Dot(index.xb[id + 1], q)

\* a is ranked strictly before b
Better(metric, a, b) == IF metric = "L2" THEN a < b ELSE a > b

\* ids 0..n-1 ordered best first, equal scores by ascending id
RECURSIVE InsertRanked(_, _, _, _)
InsertRanked(index, q, ranked, id) ==
    IF ranked = <<>> THEN <<id>>
    ELSE IF Better(index.metric, Score(index, id, q), Score(index, Head(ranked), q))
         THEN <<id>> \o ranked
         ELSE <<Head(ranked)>> \o InsertRanked(index, q, Tail(ranked), id)

RECURSIVE RankedUpTo(_, _, _)
RankedUpTo(index, q, n) ==
    IF n = 0 THEN <<>>
    ELSE Bind(RankedUpTo(index, q, n - 1),
              LAMBDA ranked : InsertRanked(index, q, ranked, n - 1))

\* index.search(q, k): one row of k distances and k labels, padded with -1
index_search(index, q, k) ==
    LET n   == Len(index.xb)
        pad == IF index.metric = "L2" THEN FltMax ELSE -FltMax
    IN  IF Len(q) # index.d \/ k <= 0
        THEN [raised |-> "AssertionError", D |-> <<>>, I |-> <<>>]
        ELSE Bind(RankedUpTo(index, q, n), LAMBDA ranked :
             [raised |-> NoError,
              D |-> [j \in 1..k |-> IF j <= n THEN Score(index, ranked[j], q) ELSE pad],
              I |-> [j \in 1..k |-> IF j <= n THEN ranked[j] ELSE -1]])

\* faiss.write_index / faiss.read_index of a flat index
write_index(index) == [d |-> index.d, metric |-> index.metric, xb |-> index.xb]

read_index(file) == [d |-> file.d, metric |-> file.metric, xb |-> file.xb]

(* --------------------------- VectorStore ------------------------------- *)

initialize_index(dimension, index_type) ==
    IF index_type = "L2" THEN [raised |-> NoError, index |-> IndexFlatL2(dimension)]
    ELSE IF index_type = "cosine"
         THEN [raised |-> NoError, index |-> IndexFlatIP(dimension)]
         ELSE [raised |-> "ValueError", index |-> None]

\* VectorStore(dimension, index_type); only called with a supported type
VectorStore(dimension, index_type) ==
    [dimension  |-> dimension,
     index_type |-> index_type,
     index      |-> initialize_index(dimension, index_type).index,
     chunks     |-> <<>>,
     metadata   |-> <<>>]

\* `if metadata`: None and the empty list are both false
Truthy(metadata) == ~metadata.isNone /\ Len(metadata.v) > 0

\* a forgotten else branch: nothing is stored when no metadata is given
FillMetadata_NoFill(chunks, metadata) ==
    IF Truthy(metadata) THEN metadata.v ELSE <<>>

\* the records appended to self.metadata
FillMetadata(chunks, metadata) ==
    IF Truthy(metadata) THEN metadata.v ELSE [i \in 1..Len(chunks) |-> EmptyDict]

(* numpy arrays inside a call.  An ndarray is a view, [buf, ndim], of a
   buffer; `mem` is the sequence of buffers the call can reach, each one the
   rows it stores.  Buffer 1 is the array the caller handed over, and what
   the caller (or the embedder's cache, which holds the same object) sees
   after the call is what buffer 1 then stores. *)

\* the memory at entry: the one array the call is handed
Memory(rows) == <<rows>>

\* the parameter at entry: a view of the caller's buffer
Given(ndim) == [buf |-> 1, ndim |-> ndim]

\* the rows an array shows
Rows(mem, x) == mem[x.buf]

\* x.reshape(1, -1): a new view of the same buffer
reshape(mem, x) == [mem |-> mem, x |-> [x EXCEPT !.ndim = 2]]

\* the array is already float32 and is handed back as it is (copy=False)
astype_NoCopy(mem, x) == [mem |-> mem, x |-> x]

\* x.astype('float32'): a newly allocated array with the same values (the
\* vectors of the model are float32 values already), whatever the dtype of x
astype(mem, x) ==
    [mem |-> Append(mem, Rows(mem, x)), x |-> [x EXCEPT !.buf = Len(mem) + 1]]

\* faiss.normalize_L2(x): every row of the buffer of x is rewritten in place
faiss_normalize_L2(mem, x) ==
    [mem EXCEPT ![x.buf] = [i \in 1..Len(Rows(mem, x)) |->
                               normalize_L2(Rows(mem, x)[i])]]

\* lines 56-60 of add: the rebinding of `embeddings` and the normalisation
AddArrays(self, embeddings) ==
    LET a == astype(Memory(embeddings.rows), Given(2))
    IN  [mem |-> IF self.index_type = "cosine"
                 THEN faiss_normalize_L2(a.mem, a.x)
                 ELSE a.mem,
         x   |-> a.x]

add(self, embeddings, chunks, metadata) ==
    IF Len(embeddings.rows) # Len(chunks)
    THEN [raised |-> "ValueError", self |-> self, embeddings |-> embeddings]
    ELSE IF Truthy(metadata) /\ Len(metadata.v) # Len(chunks)
    THEN [raised |-> "ValueError", self |-> self, embeddings |-> embeddings]
    ELSE
      LET a == AddArrays(self, embeddings)
          \* the array FAISS is given, and the caller's array after the call
          x == [embeddings EXCEPT !.rows = Rows(a.mem, a.x)]
          after == [embeddings EXCEPT !.rows = Rows(a.mem, Given(2))]
          r == index_add(self.index, x)
      IN  IF r.raised # NoError
          THEN [raised |-> r.raised, self |-> self, embeddings |-> after]
          ELSE [raised |-> NoError,
                self |-> [self EXCEPT
                   !.index    = r.index,
                   !.chunks   = @ \o chunks,
                   !.metadata = @ \o FillMetadata(chunks, metadata)],
                embeddings |-> after]

\* python list indexing with a label: a negative label counts from the end
ListGet(list, idx) == IF idx >= 0 THEN list[idx + 1] ELSE list[Len(list) + idx + 1]

ListHas(list, idx) ==
    IF idx >= 0 THEN idx < Len(list) ELSE -idx <= Len(list)

NoResult == [chunks |-> <<>>, distances |-> <<>>, indices |-> <<>>, metadata |-> <<>>]

\* the sentinel labels are kept
ValidIndices_NoFilter(I) == I

\* [idx for idx in indices[0] if idx != -1]
ValidIndices(I) == SelectSeq(I, LAMBDA idx : idx # -1)

\* the whole row of distances is returned
ResultDistances_All(D, valid_indices) == D

\* distances[0][:len(valid_indices)]
ResultDistances(D, valid_indices) == Prefix(D, Len(valid_indices))

\* lines 86-91 of search, for the 1-D vector q embed_text returns: the
\* reshape, the rebinding of `query_embedding` and the normalisation
SearchArrays(self, q) ==
    LET v == IF Given(1).ndim = 1
             THEN reshape(Memory(<<q>>), Given(1))
             ELSE [mem |-> Memory(<<q>>), x |-> Given(1)]
        a == astype(v.mem, v.x)
    IN  [mem |-> IF self.index_type = "cosine"
                 THEN faiss_normalize_L2(a.mem, a.x)
                 ELSE a.mem,
         x   |-> a.x]

\* the query row FAISS is searched with
SearchedQuery(self, q) ==
    Bind(SearchArrays(self, q), LAMBDA a : Rows(a.mem, a.x)[1])

\* the vector the caller's array holds once search is over
QueryAfterSearch(self, q) ==
    Bind(SearchArrays(self, q), LAMBDA a : Rows(a.mem, Given(1))[1])

\* the dictionary search returns for the FAISS result r
SearchResult(self, r) ==
    Bind(ValidIndices(r.I), LAMBDA valid_indices :
        IF \E j \in 1..Len(valid_indices) :
                ~ListHas(self.chunks, valid_indices[j])
                \/ ~ListHas(self.metadata, valid_indices[j])
        THEN [raised |-> "IndexError", result |-> NoResult]
        ELSE [raised |-> NoError,
              result |->
                [chunks    |-> [j \in 1..Len(valid_indices) |->
                                   ListGet(self.chunks, valid_indices[j])],
                 distances |-> ResultDistances(r.D, valid_indices),
                 indices   |-> valid_indices,
                 metadata  |-> [j \in 1..Len(valid_indices) |->
                                   ListGet(self.metadata, valid_indices[j])]]])

search(self, query_embedding, k) ==
    Bind(index_search(self.index, SearchedQuery(self, query_embedding), k), LAMBDA r :
        [raised |-> IF r.raised # NoError THEN r.raised ELSE SearchResult(self, r).raised,
         result |-> IF r.raised # NoError THEN NoResult ELSE SearchResult(self, r).result,
         query_embedding |-> QueryAfterSearch(self, query_embedding)])

\* the four files written into the directory
save(self) ==
    [index_faiss  |-> write_index(self.index),
     chunks_pkl   |-> self.chunks,
     metadata_pkl |-> self.metadata,
     config_json  |-> [dimension |-> self.dimension, index_type |-> self.index_type]]

NoDir == [exists |-> FALSE]

Dir(files) == [exists |-> TRUE, files |-> files]

\* metadata.pkl is never read back
load_KeepMetadata(self, directory) ==
    IF ~directory.exists
    THEN [raised |-> "FileNotFoundError", self |-> self]
    ELSE [raised |-> NoError,
          self |-> [dimension  |-> directory.files.config_json.dimension,
                    index_type |-> directory.files.config_json.index_type,
                    index      |-> read_index(directory.files.index_faiss),
                    chunks     |-> directory.files.chunks_pkl,
                    metadata   |-> self.metadata]]

load(self, directory) ==
    IF ~directory.exists
    THEN [raised |-> "FileNotFoundError", self |-> self]
    ELSE [raised |-> NoError,
          self |-> [dimension  |-> directory.files.config_json.dimension,
                    index_type |-> directory.files.config_json.index_type,
                    index      |-> read_index(directory.files.index_faiss),
                    chunks     |-> directory.files.chunks_pkl,
                    metadata   |-> directory.files.metadata_pkl]]

get_statistics(self) ==
    [total_chunks |-> Len(self.chunks),
     dimension    |-> self.dimension,
     index_type   |-> self.index_type]

\* the lists are emptied but the index is not rebuilt
clear_KeepIndex(self) ==
    [self EXCEPT !.chunks = <<>>, !.metadata = <<>>]

clear(self) ==
    [self EXCEPT !.chunks   = <<>>,
                 !.metadata = <<>>,
                 !.index    = initialize_index(self.dimension, self.index_type).index]

(* ------------------------ EmbeddingGenerator --------------------------- *)

\* texts for which text.strip() is empty
BlankTexts == {"", " "}

IsBlank(text) == text \in BlankTexts

\* SentenceTransformer.encode on one text: a fixed function of the text
ModelEncode(text) ==
    CASE text = "a"  -> <<5, 0>>
      [] text = "b"  -> <<0, -10>>
      [] text = "c"  -> <<3, 4>>
      [] text = "q1" -> <<5, 0>>
      [] OTHER       -> <<-6, -8>>

get_embedding_dimension == Len(ModelEncode("q1"))

CacheHas(c, text) == \E e \in c : e[1] = text

CacheGet(c, text) == (CHOOSE e \in c : e[1] = text)[2]

\* blank text is encoded and cached like any other
embed_text_NoBlankCheck(c, text) ==
    IF CacheHas(c, text)
    THEN [embedding |-> CacheGet(c, text), cache |-> c]
    ELSE [embedding |-> ModelEncode(text),
          cache     |-> c \cup {<<text, ModelEncode(text)>>}]

embed_text(c, text) ==
    IF IsBlank(text)
    THEN [embedding |-> [i \in 1..get_embedding_dimension |-> 0], cache |-> c]
    ELSE IF CacheHas(c, text)
    THEN [embedding |-> CacheGet(c, text), cache |-> c]
    ELSE [embedding |-> ModelEncode(text),
          cache     |-> c \cup {<<text, ModelEncode(text)>>}]

\* embed_batch on a non-empty list: one encoded row per text, no cache
embed_batch(texts) ==
    [d |-> get_embedding_dimension,
     rows |-> [i \in 1..Len(texts) |-> ModelEncode(texts[i])]]

(* ------------------------- SemanticRetriever --------------------------- *)

\* SemanticRetriever(store, gen, top_k=3, similarity_threshold=0.0)
top_k == 3

similarity_threshold == 0

\* the floor is inclusive: a score equal to the threshold is dropped
BelowThreshold_Inclusive(index_type, score, threshold) ==
    index_type = "cosine" /\ score <= threshold

\* the floor is applied whatever the metric
BelowThreshold_AnyMetric(index_type, score, threshold) == score < threshold

\* the item is skipped (`continue`)
BelowThreshold(index_type, score, threshold) ==
    index_type = "cosine" /\ score < threshold

\* the loop `for i in range(len(results['chunks']))`, from position i on
RECURSIVE FormatAndFilter(_, _, _, _)
FormatAndFilter(index_type, results, threshold, i) ==
    IF i >= Len(results.chunks) THEN <<>>
    ELSE LET score == results.distances[i + 1]
             rest  == FormatAndFilter(index_type, results, threshold, i + 1)
         IN  IF BelowThreshold(index_type, score, threshold)
             THEN rest
             ELSE <<[text     |-> results.chunks[i + 1],
                     score    |-> score,
                     metadata |-> results.metadata[i + 1],
                     rank     |-> i]>> \o rest

\* k = k if k is not None else self.top_k
EffectiveK(k) == IF ~k.isNone THEN k.v ELSE top_k

\* threshold = threshold if threshold is not None else self.similarity_threshold
EffectiveThreshold(threshold) ==
    IF ~threshold.isNone THEN threshold.v ELSE similarity_threshold

\* self.cache once the array embed_text returned has been through search:
\* for a text that is not blank that array is the one the cache holds
CacheAfterSearch(c, text, query_embedding) ==
    IF IsBlank(text) THEN c
    ELSE {e \in c : e[1] # text} \cup {<<text, query_embedding>>}

retrieve(vector_store, c, query, k, threshold) ==
    LET kk == EffectiveK(k)
        th == EffectiveThreshold(threshold)
        e  == embed_text(c, query)
    IN  Bind(search(vector_store, e.embedding, kk), LAMBDA r :
        IF r.raised # NoError
        THEN [raised |-> r.raised, result |-> <<>>,
              cache |-> CacheAfterSearch(e.cache, query, r.query_embedding)]
        ELSE [raised |-> NoError,
              result |-> FormatAndFilter(vector_store.index_type, r.result, th, 0),
              cache  |-> CacheAfterSearch(e.cache, query, r.query_embedding)])

\* list.sort(key=score, reverse=reverse): stable in both directions
RECURSIVE InsertSorted(_, _, _)
InsertSorted(sorted, item, reverse) ==
    IF sorted = <<>> THEN <<item>>
    ELSE IF (IF reverse THEN item.score > Head(sorted).score
             ELSE item.score < Head(sorted).score)
         THEN <<item>> \o sorted
         ELSE <<Head(sorted)>> \o InsertSorted(Tail(sorted), item, reverse)

\* the first n items of the list, sorted
RECURSIVE SortUpTo(_, _, _)
SortUpTo(list, n, reverse) ==
    IF n = 0 THEN <<>>
    ELSE Bind(SortUpTo(list, n - 1, reverse),
              LAMBDA sorted : InsertSorted(sorted, list[n], reverse))

SortByScore(list, reverse) == SortUpTo(list, Len(list), reverse)

\* the loop `for query in queries: all_results.extend(self.retrieve(query, k=k))`
RECURSIVE RetrieveAll(_, _, _, _)
RetrieveAll(vector_store, c, queries, kk) ==
    IF queries = <<>>
    THEN [raised |-> NoError, result |-> <<>>, cache |-> c]
    ELSE Bind(retrieve(vector_store, c, Head(queries), Some(kk), None), LAMBDA r :
             IF r.raised # NoError THEN r
             ELSE Bind(RetrieveAll(vector_store, r.cache, Tail(queries), kk),
                       LAMBDA rest : [rest EXCEPT !.result = r.result \o @]))

\* the loop `for res in all_results` with its break
RECURSIVE UniqueByText(_, _, _, _)
UniqueByText(all_results, seen_texts, unique_results, kk) ==
    IF all_results = <<>> THEN unique_results
    ELSE LET res == Head(all_results)
         IN  Bind(IF res.text \notin seen_texts
                  THEN Append(unique_results, res) ELSE unique_results,
                  LAMBDA uniq :
                     IF Len(uniq) >= kk THEN uniq
                     ELSE UniqueByText(Tail(all_results), seen_texts \cup {res.text},
                                       uniq, kk))

\* always sorted with the highest score first
ReverseSort_Always(index_type) == TRUE

ReverseSort(index_type) == (index_type = "cosine")

retrieve_multi_query(vector_store, c, queries, k) ==
    LET kk == EffectiveK(k)
        reverse_sort == ReverseSort(vector_store.index_type)
    IN  Bind(RetrieveAll(vector_store, c, queries, kk), LAMBDA all :
        IF all.raised # NoError THEN all
        ELSE Bind(SortByScore(all.result, reverse_sort), LAMBDA sorted :
             [all EXCEPT !.result = UniqueByText(sorted, {}, <<>>, kk)]))

\* get_words, the local function of deduplicate_chunks
get_words(text) == Range(split(StripPunct(lower(text))))

\* a float given as the fraction num / den, den > 0
Frac(num, den) == [num |-> num, den |-> den]

\* duplicate already at a similarity equal to the threshold
JaccardExceeds_AtLeast(words_i, words_existing, overlap_threshold) ==
    Cardinality(words_i \cap words_existing) * overlap_threshold.den
        >= overlap_threshold.num * Cardinality(words_i \cup words_existing)

\* jaccard = len(intersection) / len(union); jaccard > overlap_threshold
JaccardExceeds(words_i, words_existing, overlap_threshold) ==
    Cardinality(words_i \cap words_existing) * overlap_threshold.den
        > overlap_threshold.num * Cardinality(words_i \cup words_existing)

\* an item is compared with the first kept item only
IsDuplicate_FirstKept(words_i, unique_chunks, overlap_threshold) ==
    LET words_existing == get_words(unique_chunks[1].text)
    IN  /\ Cardinality(words_i \cup words_existing) # 0
        /\ JaccardExceeds(words_i, words_existing, overlap_threshold)

\* the inner loop `for existing in unique_chunks`, with its continue and break
IsDuplicate(words_i, unique_chunks, overlap_threshold) ==
    \E j \in 1..Len(unique_chunks) :
        LET words_existing == get_words(unique_chunks[j].text)
        IN  /\ Cardinality(words_i \cup words_existing) # 0
            /\ JaccardExceeds(words_i, words_existing, overlap_threshold)

\* the outer loop `for i in range(1, len(chunks))`, from index i on
RECURSIVE DedupFrom(_, _, _, _)
DedupFrom(chunks, i, unique_chunks, overlap_threshold) ==
    IF i >= Len(chunks) THEN unique_chunks
    ELSE Bind(IF IsDuplicate(get_words(chunks[i + 1].text), unique_chunks,
                             overlap_threshold)
              THEN unique_chunks ELSE Append(unique_chunks, chunks[i + 1]),
              LAMBDA uniq : DedupFrom(chunks, i + 1, uniq, overlap_threshold))

deduplicate_chunks(chunks, overlap_threshold) ==
    IF chunks = <<>> THEN <<>>
    ELSE DedupFrom(chunks, 1, <<chunks[1]>>, overlap_threshold)

(* ----------------------------- TextChunker ----------------------------- *)

\* only an overlap larger than chunk_size is refused
OverlapInvalid_Strict(chunk_size, overlap) == overlap > chunk_size

\* if overlap >= chunk_size
OverlapInvalid(chunk_size, overlap) == overlap >= chunk_size

\* def __init__(self, chunk_size=300, overlap=50)
chunk_size_default == 300

overlap_default == 50

\* TextChunker.__init__ of chunking.py
TextChunker(chunk_size, overlap) ==
    IF OverlapInvalid(chunk_size, overlap)
    THEN [raised |-> "ValueError"]
    ELSE [raised |-> NoError,
          self |-> [chunk_size |-> chunk_size, overlap |-> overlap]]

\* not text or not text.strip()
IsEmptyText(text) == text = <<>> \/ strip(text) = <<>>

\* the text is only stripped at its ends
NormalizeWhitespace_Strip(text) == strip(text)

\* " ".join(text.split())
NormalizeWhitespace(text) == join(<<" ">>, split(text))

\* a bound of a slice of a list of n items: a negative one counts from the
\* end, and both are clamped into 0..n
SliceBound(b, n) ==
    IF b < 0 THEN (IF b + n < 0 THEN 0 ELSE b + n) ELSE Min(b, n)

\* words[start:end]
SliceWords(words, start, end) ==
    IF SliceBound(end, Len(words)) <= SliceBound(start, Len(words)) THEN <<>>
    ELSE SubSeq(words, SliceBound(start, Len(words)) + 1,
                SliceBound(end, Len(words)))

\* the next window starts one word too far
NextStart_OffByOne(start, chunk_size, overlap) ==
    start + (chunk_size - overlap) + 1

\* start += (self.chunk_size - self.overlap)
NextStart(start, chunk_size, overlap) == start + (chunk_size - overlap)

\* the loop goes on when the window ends exactly at the last word
ReachedEnd_Strict(end, n) == end > n

\* if end >= len(words): break
ReachedEnd(end, n) == end >= n

\* the loop `while start < len(words)`
RECURSIVE WordWindows(_, _, _)
WordWindows(self, words, start) ==
    IF ~(start < Len(words)) THEN <<>>
    ELSE LET end == start + self.chunk_size
         IN  <<join(<<" ">>, SliceWords(words, start, end))>>
             \o (IF ReachedEnd(end, Len(words)) THEN <<>>
                 ELSE WordWindows(self, words,
                                  NextStart(start, self.chunk_size, self.overlap)))

chunk_by_words(self, text) ==
    IF IsEmptyText(text) THEN <<>>
    ELSE Bind(split(NormalizeWhitespace(text)), LAMBDA words :
             IF Len(words) <= self.chunk_size THEN <<NormalizeWhitespace(text)>>
             ELSE WordWindows(self, words, 0))

\* characters that end a sentence in the pattern (?<=[.!?])\s+
SentenceEnds == {".", "!", "?"}

\* the end of the run of whitespace that starts at position i
RECURSIVE SkipWhitespace(_, _)
SkipWhitespace(text, i) ==
    IF i <= Len(text) /\ text[i] \in WhitespaceChars
    THEN SkipWhitespace(text, i + 1) ELSE i

\* re.split(r'(?<=[.!?])\s+', text) from position i on, cur being the piece
\* read so far
RECURSIVE SentencesFrom(_, _, _)
SentencesFrom(text, i, cur) ==
    IF i > Len(text) THEN <<cur>>
    ELSE IF text[i] \in WhitespaceChars /\ i > 1 /\ text[i - 1] \in SentenceEnds
         THEN <<cur>> \o SentencesFrom(text, SkipWhitespace(text, i), <<>>)
         ELSE SentencesFrom(text, i + 1, Append(cur, text[i]))

split_sentences(text) == SentencesFrom(text, 1, <<>>)

\* a chunk is closed already when the next sentence fills it exactly
WouldExceed_Inclusive(current_word_count, sentence_word_count, max_words) ==
    current_word_count + sentence_word_count >= max_words

\* current_word_count + sentence_word_count > max_words
WouldExceed(current_word_count, sentence_word_count, max_words) ==
    current_word_count + sentence_word_count > max_words

\* the loop `for sentence in sentences` and the final `if current_chunk`
RECURSIVE SentenceChunks(_, _, _, _, _)
SentenceChunks(sentences, i, current_chunk, current_word_count, max_words) ==
    IF i > Len(sentences)
    THEN (IF current_chunk # <<>> THEN <<join(<<" ">>, current_chunk)>> ELSE <<>>)
    ELSE LET sentence_word_count == Len(split(sentences[i]))
         IN  IF WouldExceed(current_word_count, sentence_word_count, max_words)
                /\ current_chunk # <<>>
             THEN <<join(<<" ">>, current_chunk)>>
                  \o SentenceChunks(sentences, i + 1, <<sentences[i]>>,
                                    sentence_word_count, max_words)
             ELSE SentenceChunks(sentences, i + 1, Append(current_chunk, sentences[i]),
                                 current_word_count + sentence_word_count, max_words)

chunk_by_sentences(self, text, max_words) ==
    IF IsEmptyText(text) THEN <<>>
    ELSE Bind(split_sentences(strip(text)),
              LAMBDA sentences : SentenceChunks(sentences, 1, <<>>, 0, max_words))

(* -------------------------- ContextAssembler --------------------------- *)

\* x.get('score', 0): a chunk dict is a record, a missing key a missing field
ScoreKey(chunk) == IF "score" \in DOMAIN chunk THEN chunk.score ELSE 0

\* sorted(chunks, key=..., reverse=True) is stable: an item goes behind the
\* items of equal score that came before it
RECURSIVE InsertByScoreDesc(_, _)
InsertByScoreDesc(sorted, item) ==
    IF sorted = <<>> THEN <<item>>
    ELSE IF ScoreKey(item) > ScoreKey(Head(sorted))
         THEN <<item>> \o sorted
         ELSE <<Head(sorted)>> \o InsertByScoreDesc(Tail(sorted), item)

RECURSIVE SortedDescUpTo(_, _)
SortedDescUpTo(chunks, n) ==
    IF n = 0 THEN <<>>
    ELSE Bind(SortedDescUpTo(chunks, n - 1),
              LAMBDA sorted : InsertByScoreDesc(sorted, chunks[n]))

SortedByScoreDesc(chunks) == SortedDescUpTo(chunks, Len(chunks))

\* text[:n]
SliceTo(text, n) ==
    IF n >= 0 THEN Prefix(text, n)
    ELSE IF Len(text) + n > 0 THEN SubSeq(text, 1, Len(text) + n) ELSE <<>>

\* a chunk that exactly fills the budget does not fit
ExceedsBudget_Inclusive(current_length, chunk_len, max_length) ==
    current_length + chunk_len >= max_length

\* current_length + chunk_len > max_length
ExceedsBudget(current_length, chunk_len, max_length) ==
    current_length + chunk_len > max_length

\* the too-long chunk is dropped, never cut
OverBudget_Drop(valid_chunks, current_length, chunk, max_length) == valid_chunks

\* the body of `if current_length + chunk_len > max_length`, up to its break
OverBudget(valid_chunks, current_length, chunk, max_length) ==
    IF current_length = 0
    THEN Append(valid_chunks, [chunk EXCEPT !.text = SliceTo(chunk.text, max_length)])
    ELSE valid_chunks

\* the loop `for chunk in sorted_chunks`, from the i-th chunk on
RECURSIVE TruncateFrom(_, _, _, _, _)
TruncateFrom(sorted_chunks, i, current_length, valid_chunks, max_length) ==
    IF i > Len(sorted_chunks) THEN valid_chunks
    ELSE IF ExceedsBudget(current_length, Len(sorted_chunks[i].text), max_length)
         THEN OverBudget(valid_chunks, current_length, sorted_chunks[i], max_length)
         ELSE TruncateFrom(sorted_chunks, i + 1,
                           current_length + Len(sorted_chunks[i].text),
                           Append(valid_chunks, sorted_chunks[i]), max_length)

truncate_to_fit(chunks, max_length) ==
    Bind(SortedByScoreDesc(chunks),
         LAMBDA sorted_chunks : TruncateFrom(sorted_chunks, 1, 0, <<>>, max_length))

\* ContextAssembler(max_context_length=4000)
max_context_length_default == 4000

ContextAssembler(max_context_length) == [max_context_length |-> max_context_length]

\* self.templates: a template is given by its literal text before {context},
\* between {context} and {query}, and after {query}
Templates(name) ==
    CASE name = "default" ->
           [head |-> <<"You are a helpful assistant. Use the following context to answer the question.\n\nCONTEXT:\n">>,
            mid  |-> <<"\n\nQUESTION:\n">>,
            tail |-> <<"\n\nProvide a concise and accurate answer based on the context above.">>]
      [] name = "instructional" ->
           [head |-> <<"Answer the user's question by following these steps:\n1. Read the provided context carefully.\n2. Identify the key facts.\n3. Formulate a structured response.\n\nCONTEXT:\n">>,
            mid  |-> <<"\n\nQUESTION:\n">>,
            tail |-> <<>>]

TemplateKeys == {"default", "instructional"}

\* self.templates.get(template_name, self.templates["default"])
TemplateGet(template_name) ==
    IF template_name \in TemplateKeys THEN Templates(template_name)
    ELSE Templates("default")

\* template.format(context=context_str, query=query)
Format(template, context_str, query) ==
    template.head \o context_str \o template.mid \o query \o template.tail

\* str(n) for n >= 0
RECURSIVE IntStr(_)
IntStr(n) ==
    IF n < 10 THEN <<DigitChars[n + 1]>>
    ELSE IntStr(n \div 10) \o <<DigitChars[(n % 10) + 1]>>

\* f"{score:.3f}": a score is a whole number of 1/(Scale*Scale), which is a
\* whole number of thousandths
Format3f(score) ==
    LET t == ((IF score < 0 THEN -score ELSE score) * 1000) \div (Scale * Scale)
    IN  (IF score < 0 THEN <<"-">> ELSE <<>>)
        \o IntStr(t \div 1000) \o <<".">>
        \o <<DigitChars[((t \div 100) % 10) + 1], DigitChars[((t \div 10) % 10) + 1],
              DigitChars[(t % 10) + 1]>>

\* d.get(key, default) on a dict
DictGet(d, key, default) ==
    IF \E e \in d : e[1] = key THEN (CHOOSE e \in d : e[1] = key)[2] ELSE default

\* chunk.get('metadata', {})
MetaOf(chunk) == IF "metadata" \in DOMAIN chunk THEN chunk.metadata ELSE EmptyDict

\* chunk.get('text', '')
TextOfChunk(chunk) == IF "text" \in DOMAIN chunk THEN chunk.text ELSE <<>>

\* header of the chunk at 0-based position i of valid_chunks
Header(chunk, i) ==
    <<"[Source: ">>
    \o DictGet(MetaOf(chunk), "source", <<"Document ">> \o IntStr(i + 1))
    \o <<" (.">> \o DictGet(MetaOf(chunk), "extension", <<"txt">>)
    \o <<") - Score: ">> \o Format3f(ScoreKey(chunk)) \o <<"]">>

\* context_parts after the loop `for i, chunk in enumerate(valid_chunks)`
ContextParts(valid_chunks) ==
    [j \in 1..Len(valid_chunks) |->
        Header(valid_chunks[j], j - 1) \o <<"\n">> \o TextOfChunk(valid_chunks[j])]

assemble_prompt(self, query, retrieved_chunks, template_name) ==
    Bind(truncate_to_fit(retrieved_chunks, self.max_context_length),
         LAMBDA valid_chunks :
             Format(TemplateGet(template_name),
                    join(<<"\n\n">>, ContextParts(valid_chunks)), query))

\* str.upper() on one character: every small letter goes to its capital
UpperChar(ch) ==
    IF \E j \in 1..26 : LowerLetters[j] = ch
    THEN UpperLetters[CHOOSE j \in 1..26 : LowerLetters[j] = ch]
    ELSE ch

\* text.upper()
upper(text) == [i \in 1..Len(text) |-> UpperChar(text[i])]

\* the role is printed as the message gives it
RoleOf_AsGiven(msg) ==
    IF "role" \in DOMAIN msg THEN msg.role ELSE <<"u", "s", "e", "r">>

\* msg.get("role", "user").upper()
RoleOf(msg) ==
    upper(IF "role" \in DOMAIN msg THEN msg.role ELSE <<"u", "s", "e", "r">>)

\* msg.get("content", "")
ContentOf(msg) == IF "content" \in DOMAIN msg THEN msg.content ELSE <<>>

\* history_str after the loop `for msg in conversation_history`
RECURSIVE HistoryStr(_, _)
HistoryStr(conversation_history, n) ==
    IF n = 0 THEN <<>>
    ELSE HistoryStr(conversation_history, n - 1)
         \o RoleOf(conversation_history[n]) \o <<": ">>
         \o ContentOf(conversation_history[n]) \o <<"\n">>

\* `not conversation_history`: None or an empty list
NoHistory(conversation_history) ==
    conversation_history.isNone \/ conversation_history.v = <<>>

create_conversational_prompt(self, query, retrieved_chunks, conversation_history) ==
    Bind(assemble_prompt(self, query, retrieved_chunks, "default"),
         LAMBDA context_prompt :
             IF NoHistory(conversation_history) THEN context_prompt
             ELSE <<"CONVERSATION HISTORY:\n">>
                  \o HistoryStr(conversation_history.v, Len(conversation_history.v))
                  \o <<"\nCURRENT TASK:\n">> \o context_prompt)

(* ----------------------------- LLMInference ---------------------------- *)

\* 2 ** attempt
RECURSIVE Pow2(_)
Pow2(n) == IF n = 0 THEN 1 ELSE 2 * Pow2(n - 1)

\* self.generate(prompt) on its n-th call: outcomes[n] tells whether the
\* provider answers; the response names the call that produced it.  error
\* is the class the provider's client raises when it fails: _generate_gemini
\* wraps it into a RuntimeError, _generate_ollama lets it through
generate(provider, outcomes, error, n) ==
    IF outcomes[n]
    THEN [raised |-> NoError, result |-> [response |-> n]]
    ELSE [raised |-> IF provider = "gemini" THEN "RuntimeError" ELSE error]

\* a wait follows every failed attempt, the last one too
ShouldWait_Always(attempt, max_retries) == TRUE

\* if attempt < max_retries - 1
ShouldWait(attempt, max_retries) == attempt < max_retries - 1

\* the events of a call of generate_with_retry: the calls of self.generate
\* with their outcome, and the sleeps with their length
GenerateEvent(ok) == [ev |-> "generate", ok |-> ok]

\* time.sleep(backoff * (2 ** attempt))
SleepEvent(backoff, attempt) == [ev |-> "sleep", t |-> backoff * Pow2(attempt)]

\* raise RuntimeError(...) behind the loop
RetryExhausted(arg, events) ==
    [op |-> "generate_with_retry", arg |-> arg, raised |-> "RuntimeError",
     result |-> None, events |-> events]

\* return self.generate(prompt, **kwargs)
RetryReturned(arg, result, events) ==
    [op |-> "generate_with_retry", arg |-> arg, raised |-> NoError,
     result |-> Some(result), events |-> events]

(* --------------------- ExternalMemorySystem (main.py) ------------------ *)

CharScale == 1000

\* SentenceTransformer.encode on a chunk given by its characters: a fixed
\* function of the text
ModelEncodeChars(text) ==
    IF text = <<>> THEN <<-6, -8>>
    ELSE CASE text[1] = "a" -> <<5, 0>>
           [] text[1] = "b" -> <<0, -10>>
           [] OTHER         -> <<3, 4>>

\* embed_batch on the chunks of a document, a non-empty list
embed_chunks(chunks) ==
    [d |-> get_embedding_dimension,
     rows |-> [i \in 1..Len(chunks) |-> ModelEncodeChars(chunks[i])]]

\* d[key] = value
DictSet(d, key, value) == {e \in d : e[1] # key} \cup {<<key, value>>}

\* TextChunker.get_chunk_metadata; the chunk ids of one call are the random
\* uuid4 values named <<uuid, 0>>, <<uuid, 1>>, ...
get_chunk_metadata(chunks, uuid) ==
    [i \in 1..Len(chunks) |->
        {<<"chunk_id", <<uuid, i - 1>> >>, <<"position", i - 1>>,
         <<"word_count", Len(split(chunks[i]))>>,
         <<"char_count", Len(chunks[i])>>}]

\* the defaults of ingest_document: file_type "text", extension "txt"
DefaultFileType == <<"text">>

DefaultExtension == <<"txt">>

\* the loop `for m in metadata` of ingest_document
IngestMetadata(metadata, source, file_type, extension) ==
    [i \in 1..Len(metadata) |->
        DictSet(DictSet(IF ~source.isNone /\ source.v # <<>>
                        THEN DictSet(metadata[i], "source", source.v)
                        ELSE metadata[i],
                        "file_type", file_type),
                "extension", extension)]

\* nothing is written after an ingest
save_memory_Skip(directory, vector_store) == directory

\* self.save_memory(self.persistence_path): the directory afterwards
save_memory(directory, vector_store) == Dir(save(vector_store))

\* ingest_document up to its auto-save; self is the system's chunker and
\* vector store.  A text without words gives no chunks, embed_batch returns
\* an empty 1-D array and faiss.normalize_L2 raises on its shape.
ingest_document(self, text, source, file_type, extension, uuid) ==
    Bind(chunk_by_words(self.chunker, text), LAMBDA chunks :
        IF chunks = <<>>
        THEN [raised |-> "IndexError", vector_store |-> self.vector_store]
        ELSE Bind(add(self.vector_store, embed_chunks(chunks), chunks,
                      Some(IngestMetadata(get_chunk_metadata(chunks, uuid), source,
                                          file_type, extension))),
                  LAMBDA r :
                     IF r.raised # NoError
                     THEN [raised |-> r.raised, vector_store |-> self.vector_store]
                     ELSE [raised |-> NoError, vector_store |-> r.self,
                           result |-> [chunks_created    |-> Len(chunks),
                                       embeddings_stored |-> Len(embed_chunks(chunks).rows),
                                       source            |-> source,
                                       file_type         |-> file_type]]))

\* file_type_map of ingest_file; an extension is one fragment
file_type_map ==
    {<< <<"md">>, <<"markdown">> >>, << <<"py">>, <<"python">> >>,
     << <<"js">>, <<"javascript">> >>, << <<"ts">>, <<"typescript">> >>,
     << <<"tsx">>, <<"react-typescript">> >>,
     << <<"jsx">>, <<"react-javascript">> >>,
     << <<"html">>, <<"html">> >>, << <<"css">>, <<"css">> >>,
     << <<"scss">>, <<"sass">> >>, << <<"txt">>, <<"text">> >>,
     << <<"yaml">>, <<"config">> >>, << <<"yml">>, <<"config">> >>,
     << <<"json">>, <<"data">> >>, << <<"csv">>, <<"data">> >>,
     << <<"sql">>, <<"database">> >>, << <<"sh">>, <<"shell">> >>,
     << <<"bash">>, <<"shell">> >>, << <<"go">>, <<"go">> >>,
     << <<"rs">>, <<"rust">> >>, << <<"c">>, <<"c">> >>,
     << <<"cpp">>, <<"cpp">> >>, << <<"h">>, <<"header">> >>,
     << <<"hpp">>, <<"header">> >>, << <<"java">>, <<"java">> >>,
     << <<"rb">>, <<"ruby">> >>, << <<"php">>, <<"php">> >>,
     << <<"env">>, <<"config">> >>}

\* path.suffix[1:] if path.suffix else "txt"; a suffix is the fragment "."
\* followed by the extension, and empty when the name has none
ExtensionOf(path) == IF path.suffix # <<>> THEN Tail(path.suffix) ELSE <<"txt">>

\* ingest_file: the file is read and ingested under its name, with the
\* file type its extension stands for
ingest_file(self, file, uuid) ==
    IF ~file.exists
    THEN [raised |-> "FileNotFoundError", vector_store |-> self.vector_store]
    ELSE ingest_document(self, file.text, Some(file.name),
                         DictGet(file_type_map, ExtensionOf(file), <<"text">>),
                         ExtensionOf(file), uuid)

\* load_memory(path): the vector store afterwards, or the error
load_memory(vector_store, directory) == load(vector_store, directory)

\* ExternalMemorySystem(config_path): the components, then the auto-load
\* when something exists at persistence_path or a file named
\* persistence_path + ".index" exists (index_file); the load reads the
\* directory in both cases
ExternalMemorySystem(config, directory, index_file) ==
    Bind(TextChunker(config.chunk_size, config.overlap), LAMBDA c :
        IF c.raised # NoError THEN [raised |-> c.raised]
        ELSE Bind(VectorStore(get_embedding_dimension, "cosine"), LAMBDA vs :
                 IF directory.exists \/ index_file
                 THEN [raised |-> load(vs, directory).raised,
                       self |-> [chunker |-> c.self,
                                 vector_store |-> load(vs, directory).self,
                                 cache |-> {}]]
                 ELSE [raised |-> NoError,
                       self |-> [chunker |-> c.self, vector_store |-> vs,
                                 cache |-> {}]]))

\* llm_cfg.get('provider', 'ollama') of a configuration without llm section
llm_provider_default == "ollama"

\* ExternalMemorySystem.query up to self.llm.generate(prompt): the retrieval,
\* which fills the embedder's cache, and the prompt; self is the system's
\* vector store and embedder cache
query_retrieve(self, question, k, template) ==
    Bind(retrieve(self.vector_store, self.cache, question, k, None), LAMBDA r :
        IF r.raised # NoError
        THEN [raised |-> r.raised, cache |-> r.cache, prompt |-> <<>>]
        ELSE [raised |-> NoError, cache |-> r.cache,
              prompt |-> assemble_prompt(
                             ContextAssembler(max_context_length_default \div CharScale),
                             <<question>>, r.result, template),
              retrieved_chunks |-> r.result])

\* ExternalMemorySystem.query from self.llm.generate(prompt) on: outcomes is
\* what the provider does on each call it gets, error the class its client
\* raises; next to the outcome, the number of generate calls made
query_generate(retrieved_chunks, outcomes, error) ==
    Bind(generate(llm_provider_default, outcomes, error, 1), LAMBDA g :
        IF g.raised # NoError
        THEN [raised |-> g.raised, calls |-> 1]
        ELSE [raised |-> NoError, calls |-> 1,
              result |-> [answer  |-> g.result.response,
                          sources |-> retrieved_chunks]])

\* ExternalMemorySystem.get_statistics
system_get_statistics(vector_store) ==
    [total_chunks |-> get_statistics(vector_store).total_chunks,
     dimension    |-> get_statistics(vector_store).dimension,
     index_type   |-> get_statistics(vector_store).index_type,
     llm_provider |-> llm_provider_default]

(* ------------------------------ api.py --------------------------------- *)

get_all_texts(self) == self.chunks

\* len(chunk['text']) for the one-character texts stored in the index
TextLen(text) == IF text = "" THEN 0 ELSE 1

\* metadata_list of upload_file
MetadataList(filename, chunks) ==
    [i \in 1..Len(chunks) |->
        {<<"source", filename>>, <<"chunk_index", i - 1>>,
         <<"char_offset", chunks[i].offset>>,
         <<"chunk_size", TextLen(chunks[i].text)>>}]

\* chunk_texts of upload_file
ChunkTexts(chunks) == [i \in 1..Len(chunks) |-> chunks[i].text]

\* the fields of the shared store as a request sees them at one moment
Observed(self) ==
    [ntotal   |-> Len(self.index.xb),
     chunks   |-> Len(self.chunks),
     metadata |-> Len(self.metadata)]

\* k of retriever.retrieve(user_query, k=3) in handle_query
query_k == 3

(* ------------------------------ inputs --------------------------------- *)

Meta1 == {<<"id", 0>>}

Meta2 == {<<"id", 1>>}

\* numpy arrays handed to add
EmbInputs ==
    {[d |-> 2, rows |-> << <<5, 0>> >>],
     [d |-> 2, rows |-> << <<0, 10>>, <<6, 8>> >>]}

ChunkInputs == {<<"a">>, <<"b", "a">>}

MetaInputs == {None, Some(<<>>), Some(<<Meta1>>), Some(<<Meta1, Meta2>>)}

\* chunk lists of ingested documents
DocInputs == {<<"a">>, <<"b", "a">>, <<"c">>}

\* query vectors handed to search
QueryVecs == {<<5, 0>>, <<-6, -8>>, <<0, 0>>}

\* index_type values handed to the constructor
IndexTypes == {"L2", "cosine", "dot"}

Dimensions == {1, 2}

Queries == {"q1", "q2", " "}

KInputs == {None} \cup {Some(k) : k \in 1..MaxK}

ThresholdInputs == {None, Some(-18), Some(25)}

QueryLists ==
    {<<>>, <<"q1">>, <<"q1", "q2">>, <<"q2", "q1">>, <<"q2", " ">>, <<"q1", "q1">>}

\* all lists of at most n items of S
SeqsUpTo(S, n) == UNION {[1..k -> S] : k \in 0..n}

\* chunk texts: "a b", "A b.", "a b c", "c", "" and "!"
DedupTexts ==
    {<<"a", " ", "b">>, <<"A", " ", "b", ".">>, <<"a", " ", "b", " ", "c">>,
     <<"c">>, <<>>, <<"!">>}

\* retrieved chunks, as dicts with their text and rank
DedupInputs ==
    {[i \in 1..Len(ts) |-> [text |-> ts[i], rank |-> i - 1]] :
        ts \in SeqsUpTo(DedupTexts, MaxDedup)}

\* 0.8 (the default), 2/3 and 0.0
OverlapThresholds == {Frac(4, 5), Frac(2, 3), Frac(0, 1)}

\* candidate chunks: texts "", "ab" and "abc", with a score or without
CandidateChunks ==
    {[text |-> t, score |-> sc] : t \in {<<>>, <<"a", "b">>, <<"a", "b", "c">>},
                                  sc \in {-1, 1}}
    \cup {[text |-> t] : t \in {<<>>, <<"a", "b">>, <<"a", "b", "c">>}}

CandidateLists == SeqsUpTo(CandidateChunks, MaxCandidates)

\* chunk_size and overlap handed to the TextChunker constructor
ChunkSizes == {-1, 0, 1, 2, 3}

Overlaps == {-2, -1, 0, 1, 2, 3}

\* whitespace between and around the parts of an input text
\* a space, or a vertical tab and a line feed
Separators == {<<" ">>, <<"", "\n">>}

Paddings == {<<>>, <<" ">>}

\* the parts joined by sep, with pad in front and behind
TextOf(parts, sep, pad) == pad \o join(sep, parts) \o pad

\* texts of at most MaxWords words "a" and "b"
WordTexts ==
    {TextOf(ws, sep, pad) :
        ws \in SeqsUpTo({<<"a">>, <<"b">>}, MaxWords),
        sep \in Separators, pad \in Paddings}

\* "a.", "a b!", "b b a?" and "b", which does not end a sentence
SentenceParts ==
    {<<"a", ".">>, <<"a", " ", "b", "!">>, <<"b", " ", "b", " ", "a", "?">>, <<"b">>}

SentenceTexts ==
    {TextOf(ps, sep, pad) :
        ps \in SeqsUpTo(SentenceParts, MaxSentences),
        sep \in Separators, pad \in Paddings}

MaxWordsInputs == {1, 2, 3, 4}

\* texts handed to embed_text
EmbedTexts == {"q1", "q2", "a", "", " "}

\* what the provider does on each of the calls it may get
ProviderOutcomes == [1..MaxRetries -> BOOLEAN]

\* the provider of an LLMInference
Providers == {"ollama", "gemini"}

\* classes of the errors a provider's client raises
ClientErrors == {"ConnectionError", "ResponseError"}

\* backoff, in seconds
Backoffs == {0, 1, 3}

\* uploaded files, each given by its name and the chunks chunker.chunk
\* makes of its text
UploadFiles ==
    {[filename |-> "f.txt", chunks |-> cs] :
        cs \in {<<>>,
                <<[text |-> "a", offset |-> 0]>>,
                <<[text |-> "b", offset |-> 0], [text |-> "a", offset |-> 1]>>,
                <<[text |-> "c", offset |-> 0]>>}}

\* what the two llm.generate calls of handle_query do: both answer, the
\* first (standard path) raises, or the second (RAG path) raises
LlmOutcomes == {"ok", "standard_fails", "rag_fails"}

\* retrieved chunks handed to the assembler: "ab" without metadata, "abc"
\* from f.txt (a pdf), "c" with a source and no score, "" with empty metadata
RetrievedChunks ==
    {[text |-> <<"a", "b">>, score |-> 15],
     [text |-> <<"a", "b", "c">>, score |-> 25,
      metadata |-> {<<"source", <<"f.txt">> >>, <<"extension", <<"pdf">> >>}],
     [text |-> <<"c">>, metadata |-> {<<"source", <<"g">> >>}],
     [text |-> <<>>, score |-> -10, metadata |-> EmptyDict]}

RetrievedLists == SeqsUpTo(RetrievedChunks, MaxCandidates)

PromptQueries == {<<"w", "h", "y", "?">>, <<"q">>}

TemplateNames == {"default", "instructional", "missing"}

\* messages of a conversation: "user: Hi", "assistant: ok", and messages without
\* a role or without a content
Messages ==
    {[role |-> <<"u", "s", "e", "r">>, content |-> <<"H", "i">>],
     [role |-> <<"a", "s", "s", "i", "s", "t", "a", "n", "t">>,
      content |-> <<"o", "k">>],
     [content |-> <<"a">>],
     [role |-> <<"b", "o", "t">>]}

Histories == {None} \cup {Some(h) : h \in SeqsUpTo(Messages, MaxHistory)}

\* the chunking section of a configuration file
SystemConfigs ==
    {[chunk_size |-> 2, overlap |-> 1], [chunk_size |-> 3, overlap |-> 0],
     [chunk_size |-> 1, overlap |-> 1]}

\* documents: "b a c", "c" and ""
SystemTexts == {<<"b", " ", "a", " ", "c">>, <<"c">>, <<>>}

SourceInputs == {None}

\* files handed to ingest_file: d1.md and notes (no suffix), each holding
\* "c", and gone.py, which does not exist
Files ==
    {[name |-> <<"d1.md">>, suffix |-> <<".", "md">>, exists |-> TRUE,
      text |-> <<"c">>],
     [name |-> <<"notes">>, suffix |-> <<>>, exists |-> TRUE,
      text |-> <<"c">>],
     [name |-> <<"gone.py">>, suffix |-> <<".", "py">>, exists |-> FALSE]}

\* the directories save_memory and load_memory are pointed at: the one at
\* persistence_path and another one
Paths == {"persistence_path", "backup"}

\* the values uuid4 may draw, in the order the model names them
Uuids == <<"u1", "u2">>

UsedUuids(vector_store) ==
    {DictGet(vector_store.metadata[i], "chunk_id", <<"", 0>>)[1] :
        i \in 1..Len(vector_store.metadata)}

\* the chunk ids a saved directory holds
DirUuids(directory) ==
    IF directory.exists
    THEN UsedUuids([metadata |-> directory.files.metadata_pkl])
    ELSE {}

\* a call that draws no id
NoUuid == ""

\* uuid4 never draws a value it has drawn before, and its values carry no
\* meaning but their identity: the value of a call is named by the first
\* name that is not in use, in the store or in a saved directory
NewUuids(used) ==
    LET free == {i \in 1..Len(Uuids) : Uuids[i] \notin used}
    IN  {Uuids[i] : i \in {j \in free : \A k \in free : j <= k}}

\* the ids get_chunk_metadata may draw for the chunks of a document: none
\* when there is no chunk
UuidsFor(chunks, used) == IF chunks = <<>> THEN {NoUuid} ELSE NewUuids(used)

\* the provider answers every call, or every call but the first
QueryOutcomes == {o \in ProviderOutcomes : \A i \in 2..MaxRetries : o[i]}

\* chunk lists stored without metadata: "a a", "b" and "c c"
ChunkDocs ==
    {<< <<"a", " ", "a">> >>, << <<"b">>, <<"c", " ", "c">> >>, << <<"c", " ", "c">> >>}

\* no upload request is being handled
NoUpload == [pc |-> "idle"]

\* no blocking call is in progress
NoCall == [pc |-> "idle"]

(* ------------------------------ actions -------------------------------- *)

Init ==
    /\ \E t \in {"L2", "cosine"} : store = VectorStore(get_embedding_dimension, t)
    /\ disk = NoDir
    /\ backup = NoDir
    /\ cache = {}
    /\ chunker = None
    /\ upload = NoUpload
    /\ call = NoCall
    /\ last = [op |-> "init"]

\* a new VectorStore instance replaces the one under observation
Construct ==
    \E d \in Dimensions, t \in IndexTypes :
        LET r == initialize_index(d, t)
        IN  /\ store' = IF r.raised = NoError THEN VectorStore(d, t) ELSE store
            /\ last' = [op |-> "construct", arg |-> [dimension |-> d, index_type |-> t],
                        raised |-> r.raised]
            /\ UNCHANGED <<disk, cache, chunker, upload, call, backup>>

Add ==
    \E e \in EmbInputs, c \in ChunkInputs, m \in MetaInputs :
        \E r \in {add(store, e, c, m)} :
            /\ Len(r.self.chunks) <= MaxStored
            /\ Len(r.self.index.xb) <= MaxStored
            /\ Len(r.self.metadata) <= MaxStored
            /\ store' = r.self
            /\ last' = [op |-> "add",
                        arg |-> [embeddings |-> e, chunks |-> c, metadata |-> m],
                        raised |-> r.raised, after |-> r.embeddings]
            /\ UNCHANGED <<disk, cache, chunker, upload, call, backup>>

\* the store behind a retriever is filled with the embeddings of the chunks
Ingest ==
    \E c \in DocInputs :
        \E r \in {add(store, embed_batch(c), c, None)} :
            /\ Len(r.self.chunks) <= MaxIngested
            /\ store' = r.self
            /\ last' = [op |-> "ingest", arg |-> [chunks |-> c], raised |-> r.raised]
            /\ UNCHANGED <<disk, cache, chunker, upload, call, backup>>

Search ==
    \E q \in QueryVecs, k \in 1..MaxK :
        \E r \in {search(store, q, k)} :
            /\ last' = [op |-> "search", arg |-> [query_embedding |-> q, k |-> k],
                        raised |-> r.raised, result |-> r.result,
                        after |-> r.query_embedding]
            /\ UNCHANGED <<store, disk, cache, chunker, upload, call, backup>>

Save ==
    /\ disk' = Dir(save(store))
    /\ last' = [op |-> "save", raised |-> NoError]
    /\ UNCHANGED <<store, cache, chunker, upload, call, backup>>

Load ==
    LET r == load(store, disk)
    IN  /\ store' = r.self
        /\ last' = [op |-> "load",
                    arg |-> [dimension |-> store.dimension, index_type |-> store.index_type],
                    raised |-> r.raised]
        /\ UNCHANGED <<disk, cache, chunker, upload, call, backup>>

Clear ==
    /\ call.pc = "idle"
    /\ store' = clear(store)
    /\ last' = [op |-> "clear",
                arg |-> [dimension |-> store.dimension, index_type |-> store.index_type],
                raised |-> NoError]
    /\ UNCHANGED <<disk, cache, chunker, upload, call, backup>>

Retrieve ==
    \E query \in Queries, k \in KInputs, threshold \in ThresholdInputs :
        \E r \in {retrieve(store, cache, query, k, threshold)} :
            /\ cache' = r.cache
            /\ last' = [op |-> "retrieve",
                        arg |-> [query |-> query, k |-> k, threshold |-> threshold],
                        raised |-> r.raised, result |-> r.result]
            /\ UNCHANGED <<store, disk, chunker, upload, call, backup>>

RetrieveMultiQuery ==
    \E queries \in QueryLists, k \in KInputs :
        \E r \in {retrieve_multi_query(store, cache, queries, k)} :
            /\ cache' = r.cache
            /\ last' = [op |-> "retrieve_multi_query",
                        arg |-> [queries |-> queries, k |-> k],
                        raised |-> r.raised, result |-> r.result]
            /\ UNCHANGED <<store, disk, chunker, upload, call, backup>>

\* one call of the pure function per behaviour
Deduplicate ==
    /\ last.op = "init"
    /\ \E chunks \in DedupInputs, overlap_threshold \in OverlapThresholds :
        \E r \in {deduplicate_chunks(chunks, overlap_threshold)} :
            /\ last' = [op |-> "deduplicate_chunks",
                        arg |-> [chunks |-> chunks,
                                 overlap_threshold |-> overlap_threshold],
                        raised |-> NoError, result |-> r]
            /\ UNCHANGED <<store, disk, cache, chunker, upload, call, backup>>

\* one call of the pure function per behaviour
TruncateToFit ==
    /\ last.op = "init"
    /\ \E chunks \in CandidateLists, max_length \in 0..MaxBudget :
        \E r \in {truncate_to_fit(chunks, max_length)} :
            /\ last' = [op |-> "truncate_to_fit",
                        arg |-> [chunks |-> chunks, max_length |-> max_length],
                        raised |-> NoError, result |-> r]
            /\ UNCHANGED <<store, disk, cache, chunker, upload, call, backup>>

\* a new TextChunker replaces the one in use, unless its constructor raises
NewChunker ==
    \E chunk_size \in ChunkSizes, overlap \in Overlaps :
        \E r \in {TextChunker(chunk_size, overlap)} :
            /\ chunker' = IF r.raised = NoError THEN Some(r.self) ELSE chunker
            /\ last' = [op |-> "TextChunker",
                        arg |-> [chunk_size |-> chunk_size, overlap |-> overlap],
                        raised |-> r.raised]
            /\ UNCHANGED <<store, disk, cache, upload, call, backup>>

\* one call per chunker just constructed
ChunkByWords ==
    /\ ~chunker.isNone
    /\ last.op = "TextChunker"
    /\ \E text \in WordTexts :
        \E r \in {chunk_by_words(chunker.v, text)} :
            /\ last' = [op |-> "chunk_by_words",
                        arg |-> [self |-> chunker.v, text |-> text],
                        raised |-> NoError, result |-> r]
            /\ UNCHANGED <<store, disk, cache, chunker, upload, call, backup>>

\* TextChunker() with the default chunk_size and overlap
DefaultChunker ==
    /\ chunker.isNone
    /\ \E r \in {TextChunker(chunk_size_default, overlap_default)} :
        /\ r.raised = NoError
        /\ chunker' = Some(r.self)
        /\ last' = [op |-> "TextChunker",
                    arg |-> [chunk_size |-> chunk_size_default,
                             overlap |-> overlap_default],
                    raised |-> r.raised]
        /\ UNCHANGED <<store, disk, cache, upload, call, backup>>

\* one call per chunker just constructed
ChunkBySentences ==
    /\ ~chunker.isNone
    /\ last.op = "TextChunker"
    /\ \E text \in SentenceTexts, max_words \in MaxWordsInputs :
        \E r \in {chunk_by_sentences(chunker.v, text, max_words)} :
            /\ last' = [op |-> "chunk_by_sentences",
                        arg |-> [self |-> chunker.v, text |-> text,
                                 max_words |-> max_words],
                        raised |-> NoError, result |-> r]
            /\ UNCHANGED <<store, disk, cache, chunker, upload, call, backup>>

EmbedText ==
    \E text \in EmbedTexts :
        \E r \in {embed_text(cache, text)} :
            /\ cache' = r.cache
            /\ last' = [op |-> "embed_text",
                        arg |-> [text |-> text, cached |-> CacheHas(cache, text)],
                        raised |-> NoError, result |-> r.embedding]
            /\ UNCHANGED <<store, disk, chunker, upload, call, backup>>

EmbedBatch ==
    \E texts \in DocInputs :
        /\ last' = [op |-> "embed_batch", arg |-> [texts |-> texts],
                    raised |-> NoError, result |-> embed_batch(texts)]
        /\ UNCHANGED <<store, disk, cache, chunker, upload, call, backup>>

\* generate_with_retry is called, once per behaviour: with max_retries = 0
\* the loop has no iteration and the call raises at once; otherwise the call
\* blocks in the first self.generate
GenerateWithRetry ==
    /\ last.op = "init"
    /\ call.pc = "idle"
    /\ \E outcomes \in ProviderOutcomes, max_retries \in 0..MaxRetries,
          backoff \in Backoffs, provider \in Providers, error \in ClientErrors :
        LET arg == [outcomes |-> outcomes, max_retries |-> max_retries,
                    backoff |-> backoff, provider |-> provider, error |-> error]
        IN  IF max_retries = 0
            THEN /\ last' = RetryExhausted(arg, <<>>)
                 /\ UNCHANGED call
            ELSE /\ call' = [pc |-> "generate", arg |-> arg, attempt |-> 0,
                             events |-> <<>>]
                 /\ UNCHANGED last
    /\ UNCHANGED <<store, disk, backup, cache, chunker, upload>>

\* `for attempt in range(max_retries)` moves past the attempt of c: the next
\* self.generate starts, or the loop is over and the call raises
RetryAdvance(c) ==
    IF c.attempt + 1 < c.arg.max_retries
    THEN /\ call' = [c EXCEPT !.pc = "generate", !.attempt = @ + 1]
         /\ UNCHANGED last
    ELSE /\ call' = NoCall
         /\ last' = RetryExhausted(c.arg, c.events)

\* the provider call in progress returns or raises; after a failure the
\* call sleeps unless this was the last attempt
RetryGenerate ==
    /\ call.pc = "generate"
    /\ \E r \in {generate(call.arg.provider, call.arg.outcomes, call.arg.error,
                       call.attempt + 1)} :
        IF r.raised = NoError
        THEN /\ call' = NoCall
             /\ last' = RetryReturned(call.arg, r.result,
                                      Append(call.events, GenerateEvent(TRUE)))
        ELSE IF ShouldWait(call.attempt, call.arg.max_retries)
        THEN /\ call' = [call EXCEPT
                            !.pc = "sleep",
                            !.events = @ \o <<GenerateEvent(FALSE),
                                              SleepEvent(call.arg.backoff,
                                                         call.attempt)>>]
             /\ UNCHANGED last
        ELSE RetryAdvance([call EXCEPT !.events = Append(@, GenerateEvent(FALSE))])
    /\ UNCHANGED <<store, disk, backup, cache, chunker, upload>>

\* time.sleep returns
RetrySleep ==
    /\ call.pc = "sleep"
    /\ RetryAdvance(call)
    /\ UNCHANGED <<store, disk, backup, cache, chunker, upload>>

\* upload_file runs on the event loop up to and including
\* self.index.add(embeddings) of store.add; a file without text, or an add
\* that raises, ends the request with status 400
UploadIndexAdd ==
    /\ upload.pc = "idle"
    /\ call.pc = "idle"
    /\ \E file \in UploadFiles :
        IF file.chunks = <<>>
        THEN /\ last' = [op |-> "upload", arg |-> file, raised |-> "HTTPException",
                         status_code |-> 400]
             /\ UNCHANGED <<store, disk, cache, chunker, upload, call, backup>>
        ELSE \E r \in {add(store, embed_batch(ChunkTexts(file.chunks)),
                            ChunkTexts(file.chunks),
                            Some(MetadataList(file.filename, file.chunks)))} :
             IF r.raised # NoError
             THEN /\ last' = [op |-> "upload", arg |-> file,
                              raised |-> "HTTPException", status_code |-> 400]
                  /\ UNCHANGED <<store, disk, cache, chunker, upload, call, backup>>
             ELSE /\ Len(r.self.chunks) <= MaxIngested
                  /\ store' = [store EXCEPT !.index = r.self.index]
                  /\ upload' = [pc |-> "index_added", file |-> file, after |-> r.self]
                  /\ UNCHANGED <<disk, cache, chunker, last, call, backup>>

\* self.chunks.extend(chunks) of the add in progress
UploadExtendChunks ==
    /\ upload.pc = "index_added"
    /\ store' = [store EXCEPT !.chunks = upload.after.chunks]
    /\ upload' = [upload EXCEPT !.pc = "chunks_extended"]
    /\ UNCHANGED <<disk, cache, chunker, last, call, backup>>

\* self.metadata.extend(metadata) of the add in progress, and the response
UploadExtendMetadata ==
    /\ upload.pc = "chunks_extended"
    /\ store' = [store EXCEPT !.metadata = upload.after.metadata]
    /\ upload' = NoUpload
    /\ last' = [op |-> "upload", arg |-> upload.file, raised |-> NoError,
                result |-> [status |-> "success",
                            chunks_created |-> Len(upload.file.chunks),
                            embeddings_stored |-> Len(upload.file.chunks)]]
    /\ UNCHANGED <<disk, cache, chunker, call, backup>>

\* raise HTTPException(status_code=500, ...) of handle_query
QueryFailed(user_query, observed) ==
    [op |-> "query", arg |-> [user_query |-> user_query],
     raised |-> "HTTPException", status_code |-> 500, observed |-> observed]

\* handle_query is a coroutine without await: it starts on the event loop
\* only when no other coroutine, upload_file included, is running, and no
\* other coroutine runs before it is over.  It checks the query, reads the
\* texts of the store and blocks in llm.generate(standard_prompt)
HandleQuery ==
    /\ upload.pc = "idle"
    /\ call.pc = "idle"
    /\ \E user_query \in Queries, llm \in LlmOutcomes :
        IF IsBlank(user_query)
        THEN /\ last' = QueryFailed(user_query, Observed(store))
             /\ UNCHANGED call
        ELSE /\ call' = [pc |-> "standard_generate", user_query |-> user_query,
                         llm |-> llm,
                         total_chunks |-> Len(get_all_texts(store)),
                         observed |-> Observed(store)]
             /\ UNCHANGED last
    /\ UNCHANGED <<store, disk, backup, cache, chunker, upload>>

\* the first llm.generate returns or raises; behind it retriever.retrieve
\* runs, and the handler blocks in llm.generate(rag_prompt)
QueryRetrieve ==
    /\ call.pc = "standard_generate"
    /\ IF call.llm = "standard_fails"
       THEN /\ call' = NoCall
            /\ last' = QueryFailed(call.user_query, call.observed)
            /\ UNCHANGED cache
       ELSE \E r \in {retrieve(store, cache, call.user_query, Some(query_k), None)} :
            /\ cache' = r.cache
            /\ IF r.raised # NoError
               THEN /\ call' = NoCall
                    /\ last' = QueryFailed(call.user_query, Observed(store))
               ELSE /\ call' = [pc |-> "rag_generate",
                                user_query |-> call.user_query, llm |-> call.llm,
                                total_chunks |-> call.total_chunks,
                                observed |-> Observed(store),
                                retrieved_chunks_count |-> Len(r.result)]
                    /\ UNCHANGED last
    /\ UNCHANGED <<store, disk, backup, chunker, upload>>

\* the second llm.generate returns or raises, and the request is answered
QueryAnswer ==
    /\ call.pc = "rag_generate"
    /\ call' = NoCall
    /\ last' = IF call.llm = "rag_fails"
               THEN QueryFailed(call.user_query, call.observed)
               ELSE [op |-> "query", arg |-> [user_query |-> call.user_query],
                     raised |-> NoError,
                     result |-> [status |-> "success",
                                 total_chunks |-> call.total_chunks,
                                 retrieved_chunks_count |->
                                     call.retrieved_chunks_count],
                     observed |-> call.observed]
    /\ UNCHANGED <<store, disk, backup, cache, chunker, upload>>

\* get_stats is a plain function: the server runs it in a worker thread,
\* at any moment
GetStats ==
    /\ last' = [op |-> "stats", raised |-> NoError,
                result |-> [status |-> "success",
                            total_chunks |-> Len(store.index.xb),
                            index_type |-> store.index_type],
                observed |-> Observed(store)]
    /\ UNCHANGED <<store, disk, cache, chunker, upload, call, backup>>

\* health is a plain function too
Health ==
    /\ last' = [op |-> "health", raised |-> NoError,
                result |-> [status |-> "healthy",
                            total_chunks |-> Len(store.index.xb)],
                observed |-> Observed(store)]
    /\ UNCHANGED <<store, disk, cache, chunker, upload, call, backup>>

\* one call of the pure function per behaviour
AssemblePrompt ==
    /\ last.op = "init"
    /\ \E query \in PromptQueries, chunks \in RetrievedLists,
          template_name \in TemplateNames, max_context_length \in 0..MaxBudget :
        \E r \in {assemble_prompt(ContextAssembler(max_context_length), query,
                                  chunks, template_name)} :
            /\ last' = [op |-> "assemble_prompt",
                        arg |-> [self |-> ContextAssembler(max_context_length),
                                 query |-> query, retrieved_chunks |-> chunks,
                                 template_name |-> template_name],
                        raised |-> NoError, result |-> r]
            /\ UNCHANGED <<store, disk, cache, chunker, upload, call, backup>>

\* one call of the pure function per behaviour
CreateConversationalPrompt ==
    /\ last.op = "init"
    /\ \E query \in PromptQueries, chunks \in RetrievedLists,
          conversation_history \in Histories :
        \E r \in {create_conversational_prompt(ContextAssembler(MaxBudget), query,
                                               chunks, conversation_history)} :
            /\ last' = [op |-> "create_conversational_prompt",
                        arg |-> [self |-> ContextAssembler(MaxBudget),
                                 query |-> query, retrieved_chunks |-> chunks,
                                 conversation_history |-> conversation_history],
                        raised |-> NoError, result |-> r]
            /\ UNCHANGED <<store, disk, cache, chunker, upload, call, backup>>

\* a process starts: a new system replaces the one in use, unless its
\* constructor raises
NewSystem ==
    /\ call.pc = "idle"
    /\ \E config \in SystemConfigs, index_file \in BOOLEAN :
        \E r \in {ExternalMemorySystem(config, disk, index_file)} :
            /\ chunker' = IF r.raised = NoError THEN Some(r.self.chunker) ELSE chunker
            /\ store' = IF r.raised = NoError THEN r.self.vector_store ELSE store
            /\ cache' = IF r.raised = NoError THEN r.self.cache ELSE cache
            /\ last' = [op |-> "ExternalMemorySystem", arg |-> config,
                        index_file |-> index_file, raised |-> r.raised]
            /\ UNCHANGED <<disk, upload, call, backup>>

IngestDocument ==
    /\ ~chunker.isNone
    /\ call.pc = "idle"
    /\ \E text \in SystemTexts, source \in SourceInputs :
       \E uuid \in UuidsFor(chunk_by_words(chunker.v, text),
                            UsedUuids(store) \cup DirUuids(disk)
                                \cup DirUuids(backup)) :
        \E r \in {ingest_document([chunker |-> chunker.v, vector_store |-> store],
                                  text, source, DefaultFileType,
                                  DefaultExtension, uuid)} :
            /\ Len(r.vector_store.chunks) <= MaxIngested
            /\ store' = r.vector_store
            /\ disk' = IF r.raised = NoError
                       THEN save_memory(disk, r.vector_store) ELSE disk
            /\ last' = IF r.raised = NoError
                       THEN [op |-> "ingest_document",
                             arg |-> [text |-> text, source |-> source],
                             raised |-> NoError, result |-> r.result,
                             before |-> Len(store.chunks)]
                       ELSE [op |-> "ingest_document",
                             arg |-> [text |-> text, source |-> source],
                             raised |-> r.raised, before |-> Len(store.chunks)]
            /\ UNCHANGED <<cache, chunker, upload, call, backup>>

IngestFile ==
    /\ ~chunker.isNone
    /\ call.pc = "idle"
    /\ \E file \in Files :
       \E uuid \in UuidsFor(IF file.exists
                            THEN chunk_by_words(chunker.v, file.text) ELSE <<>>,
                            UsedUuids(store) \cup DirUuids(disk)
                                \cup DirUuids(backup)) :
        \E r \in {ingest_file([chunker |-> chunker.v, vector_store |-> store],
                              file, uuid)} :
            /\ Len(r.vector_store.chunks) <= MaxIngested
            /\ store' = r.vector_store
            /\ disk' = IF r.raised = NoError
                       THEN save_memory(disk, r.vector_store) ELSE disk
            /\ last' = IF r.raised = NoError
                       THEN [op |-> "ingest_file", arg |-> [file |-> file],
                             raised |-> NoError, result |-> r.result,
                             before |-> Len(store.chunks)]
                       ELSE [op |-> "ingest_file", arg |-> [file |-> file],
                             raised |-> r.raised, before |-> Len(store.chunks)]
            /\ UNCHANGED <<cache, chunker, upload, call, backup>>

\* save_memory(path), called on its own; the other directory is written
\* once, by a store of at most MaxBackupChunks chunks
SaveMemory ==
    /\ ~chunker.isNone
    /\ call.pc = "idle"
    /\ \E path \in Paths :
        /\ path = "backup" =>
              (~backup.exists /\ Len(store.chunks) <= MaxBackupChunks)
        /\ disk' = IF path = "persistence_path"
                   THEN save_memory(disk, store) ELSE disk
        /\ backup' = IF path = "backup" THEN save_memory(backup, store) ELSE backup
        /\ last' = [op |-> "save_memory", arg |-> [path |-> path],
                    raised |-> NoError]
    /\ UNCHANGED <<store, cache, chunker, upload, call>>

\* load_memory(path): the store is replaced by what the directory holds
LoadMemory ==
    /\ ~chunker.isNone
    /\ call.pc = "idle"
    /\ \E path \in Paths :
        \E r \in {load_memory(store, IF path = "persistence_path"
                                      THEN disk ELSE backup)} :
            /\ store' = r.self
            /\ last' = [op |-> "load_memory", arg |-> [path |-> path],
                        raised |-> r.raised]
    /\ UNCHANGED <<disk, backup, cache, chunker, upload, call>>

\* what query leaves behind when it is over
QueryOver(arg, raised, prompt, calls) ==
    [op |-> "query", arg |-> arg, raised |-> raised, prompt |-> prompt,
     calls |-> calls]

\* query is called: it retrieves, which fills the embedder's cache, renders
\* the prompt and blocks in self.llm.generate(prompt).  The thread that
\* called it makes no other call of the system until it returns
Query ==
    /\ ~chunker.isNone
    /\ call.pc = "idle"
    /\ \E question \in {"q1"}, k \in KInputs, outcomes \in QueryOutcomes,
          error \in ClientErrors :
        \E r \in {query_retrieve([vector_store |-> store, cache |-> cache],
                                 question, k, "default")} :
            LET arg == [question |-> question, k |-> k, outcomes |-> outcomes,
                        error |-> error]
            IN  /\ outcomes[1] => error = "ConnectionError"
                /\ cache' = r.cache
                /\ IF r.raised # NoError
                   THEN /\ last' = QueryOver(arg, r.raised, r.prompt, 0)
                        /\ UNCHANGED call
                   ELSE /\ call' = [pc |-> "llm_generate", arg |-> arg,
                                    prompt |-> r.prompt,
                                    retrieved_chunks |-> r.retrieved_chunks]
                        /\ UNCHANGED last
    /\ UNCHANGED <<store, disk, backup, chunker, upload>>

\* self.llm.generate(prompt) returns or raises, and query with it
QueryGenerate ==
    /\ call.pc = "llm_generate"
    /\ \E g \in {query_generate(call.retrieved_chunks, call.arg.outcomes,
                                 call.arg.error)} :
        /\ last' = IF g.raised = NoError
                   THEN [op |-> "query", arg |-> call.arg, raised |-> NoError,
                         result |-> g.result, prompt |-> call.prompt,
                         calls |-> g.calls]
                   ELSE QueryOver(call.arg, g.raised, call.prompt, g.calls)
        /\ call' = NoCall
    /\ UNCHANGED <<store, disk, backup, cache, chunker, upload>>

\* get_statistics, from any thread: also while a query waits for the provider
GetStatistics ==
    /\ ~chunker.isNone
    /\ last' = [op |-> "get_statistics", raised |-> NoError,
                result |-> system_get_statistics(store)]
    /\ UNCHANGED <<store, disk, backup, cache, chunker, upload, call>>

\* the store behind a retriever is filled with chunks given by their
\* characters
IngestTexts ==
    \E c \in ChunkDocs :
        \E r \in {add(store, embed_chunks(c), c, None)} :
            /\ Len(r.self.chunks) <= MaxIngested
            /\ store' = r.self
            /\ last' = [op |-> "ingest", arg |-> [chunks |-> c], raised |-> r.raised]
            /\ UNCHANGED <<disk, cache, chunker, upload, call, backup>>

\* retrieve, then assemble_prompt on what it returned; kept is the
\* valid_chunks of assemble_prompt
RetrieveAssemble ==
    \E question \in {"q1", "q2"}, k \in KInputs, max_context_length \in 1..MaxBudget :
        \E r \in {retrieve(store, cache, question, k, None)} :
            /\ r.raised = NoError
            /\ cache' = r.cache
            /\ last' = [op |-> "retrieve_assemble",
                        arg |-> [question |-> question, k |-> k,
                                 max_context_length |-> max_context_length],
                        raised |-> NoError,
                        retrieved |-> r.result,
                        kept |-> truncate_to_fit(r.result, max_context_length),
                        result |-> assemble_prompt(ContextAssembler(max_context_length),
                                                   <<question>>, r.result, "default")]
            /\ UNCHANGED <<store, disk, chunker, upload, call, backup>>

\* the VectorStore life cycle
Next == Construct \/ Add \/ Search \/ Save \/ Load \/ Clear

Spec == Init /\ [][Next]_vars

\* a retriever over one store that is filled and cleared
NextRetrieval == Ingest \/ Clear \/ Retrieve

SpecRetrieval == Init /\ [][NextRetrieval]_vars

\* the same retriever asked with several queries at once
NextMultiQuery == Ingest \/ Clear \/ RetrieveMultiQuery

SpecMultiQuery == Init /\ [][NextMultiQuery]_vars

\* near-duplicate suppression applied to candidate lists
NextDedup == Deduplicate

SpecDedup == Init /\ [][NextDedup]_vars

\* candidate lists packed into a character budget
NextTruncate == TruncateToFit

SpecTruncate == Init /\ [][NextTruncate]_vars

\* chunkers are constructed and asked for word chunks
NextChunking == NewChunker \/ ChunkByWords

SpecChunking == Init /\ [][NextChunking]_vars

\* a chunker is constructed and asked for sentence chunks
NextSentences == DefaultChunker \/ ChunkBySentences

SpecSentences == Init /\ [][NextSentences]_vars

\* one embedder used directly and through a retriever
NextEmbedding == EmbedText \/ EmbedBatch \/ Ingest \/ Retrieve

SpecEmbedding == Init /\ [][NextEmbedding]_vars

\* generation with retries against a provider that may fail
NextRetry == GenerateWithRetry \/ RetryGenerate \/ RetrySleep

SpecRetry == Init /\ [][NextRetry]_vars

\* the API server: coroutines on the event loop, plain handlers in threads
NextApi ==
    \/ UploadIndexAdd \/ UploadExtendChunks \/ UploadExtendMetadata
    \/ HandleQuery \/ QueryRetrieve \/ QueryAnswer \/ GetStats \/ Health

SpecApi == Init /\ [][NextApi]_vars

\* prompts rendered from candidate lists, with and without a history
NextAssemble == AssemblePrompt \/ CreateConversationalPrompt

SpecAssemble == Init /\ [][NextAssemble]_vars

\* one store and one retriever over it, called with arrays the caller keeps
NextFrame == Construct \/ Add \/ Search \/ Retrieve

SpecFrame == Init /\ [][NextFrame]_vars

\* the memory system: processes start, documents and files are ingested,
\* questions asked, the store saved, loaded and cleared
NextSystem ==
    \/ NewSystem \/ IngestDocument \/ IngestFile
    \/ Query \/ QueryGenerate \/ GetStatistics
    \/ SaveMemory \/ LoadMemory \/ Clear

SpecSystem == Init /\ [][NextSystem]_vars

\* a retriever feeding an assembler, over an L2 or a cosine store
NextPipeline == IngestTexts \/ RetrieveAssemble

SpecPipeline == Init /\ [][NextPipeline]_vars

(* ------------------------------ claims --------------------------------- *)

\* the lengths of an add call's arguments disagree
Mismatched(arg) ==
    \/ Len(arg.embeddings.rows) # Len(arg.chunks)
    \/ (~arg.metadata.isNone /\ Len(arg.metadata.v) # Len(arg.chunks))

\* C1: in every reachable state the store holds as many vectors as chunk
\* texts and as many metadata records; an add without metadata appends exactly
\* one empty record per added text.
C1_ParallelAlignment ==
    /\ Len(store.index.xb) = Len(store.chunks)
    /\ Len(store.chunks) = Len(store.metadata)
    /\ \A e \in EmbInputs, c \in ChunkInputs :
          LET r == add(store, e, c, None)
          IN  r.raised = NoError =>
                 /\ r.self.metadata = store.metadata \o [i \in 1..Len(c) |-> EmptyDict]
                 /\ Len(r.self.index.xb) = Len(store.index.xb) + Len(c)
                 /\ Len(r.self.chunks) = Len(store.chunks) + Len(c)
    /\ (last.op = "add" /\ last.raised = NoError /\ last.arg.metadata.isNone) =>
          /\ Len(store.metadata) >= Len(last.arg.chunks)
          /\ \A i \in 1..Len(last.arg.chunks) :
                store.metadata[Len(store.metadata) - Len(last.arg.chunks) + i] = EmptyDict

C1_Witness ==
    /\ last.op = "add" /\ last.raised = NoError /\ last.arg.metadata.isNone
    /\ Len(last.arg.chunks) = 1
    /\ Len(store.chunks) = 2
    /\ store.metadata[1] # EmptyDict

\* C2: add raises whenever the number of vectors differs from the number of
\* texts and whenever a supplied metadata list has another length than the
\* texts, and a call that raises leaves the store as it was.
C2_AddRejectsMismatch ==
    /\ (last.op = "add" /\ Mismatched(last.arg)) => last.raised # NoError
    /\ \A e \in EmbInputs, c \in ChunkInputs, m \in MetaInputs :
          LET r == add(store, e, c, m)
          IN  r.raised # NoError => r.self = store

\* C3: search with k >= 1 on a store of n items returns min(k, n) results,
\* all four lists of that length, every index within 0..n-1, and the j-th
\* score, text and metadata are those of the j-th returned index.
C3_SearchResultShape ==
    (last.op = "search" /\ Len(last.arg.query_embedding) = store.index.d) =>
        LET n   == Len(store.chunks)
            res == last.result
            m   == Min(last.arg.k, n)
            q   == SearchedQuery(store, last.arg.query_embedding)
        IN  /\ last.raised = NoError
            /\ Len(res.chunks) = m
            /\ Len(res.distances) = m
            /\ Len(res.indices) = m
            /\ Len(res.metadata) = m
            /\ \A j \in 1..Len(res.indices) :
                  /\ 0 <= res.indices[j] /\ res.indices[j] < n
                  /\ j <= Len(res.distances)
                  /\ res.distances[j] = Score(store.index, res.indices[j], q)
                  /\ res.chunks[j] = store.chunks[res.indices[j] + 1]
                  /\ res.metadata[j] = store.metadata[res.indices[j] + 1]

C3_Witness ==
    /\ last.op = "search" /\ last.raised = NoError
    /\ Len(store.chunks) = 1
    /\ last.arg.k = 2
    /\ Len(last.result.chunks) = 1

\* C4: retrieve on a store with no chunks returns the empty list and raises
\* nothing, whatever the query, k and threshold.
C4_EmptyIndexRetrieve ==
    (last.op = "retrieve" /\ Len(store.chunks) = 0) =>
        /\ last.raised = NoError
        /\ last.result = <<>>

C4_Witness ==
    /\ last.op = "retrieve" /\ Len(store.chunks) = 0
    /\ last.arg.query = "q1" /\ ~last.arg.k.isNone /\ ~last.arg.threshold.isNone
    /\ last.raised = NoError

\* C5: after clear the store holds no vector, text or metadata record, keeps
\* the dimension and metric it had, and answers add and search as a newly
\* constructed store of that dimension and metric does.
C5_ClearResets ==
    last.op = "clear" =>
        LET fresh == VectorStore(last.arg.dimension, last.arg.index_type)
        IN  /\ Len(store.index.xb) = 0
            /\ Len(store.chunks) = 0
            /\ Len(store.metadata) = 0
            /\ store.dimension = last.arg.dimension
            /\ store.index_type = last.arg.index_type
            /\ \A e \in EmbInputs, c \in ChunkInputs, m \in MetaInputs :
                  add(store, e, c, m) = add(fresh, e, c, m)
            /\ \A q \in QueryVecs, k \in 1..MaxK :
                  search(store, q, k) = search(fresh, q, k)
            /\ \A e \in EmbInputs, q \in QueryVecs, k \in 1..MaxK :
                  LET a == add(store, e, [i \in 1..Len(e.rows) |-> "a"], None)
                      b == add(fresh, e, [i \in 1..Len(e.rows) |-> "a"], None)
                  IN  search(a.self, q, k) = search(b.self, q, k)

C5_Witness ==
    /\ last.op = "clear"
    /\ last.arg.index_type = "cosine"
    /\ disk.exists /\ Len(disk.files.chunks_pkl) > 0
    /\ disk.files.config_json.index_type = "cosine"
    /\ Len(store.chunks) = 0

\* C6: saving a populated store and loading the directory into another
\* store gives the same statistics, the same chunk texts and metadata in the
\* same order, and the same answer to every search: right after a save, a
\* load of the directory into any new instance reproduces the saved store,
\* and right after a load the instance holds what the directory holds.
C6_SaveLoadRoundTrip ==
    /\ (last.op = "save" /\ Len(store.chunks) > 0) =>
          \A d \in Dimensions, t \in {"L2", "cosine"} :
             LET other == load(VectorStore(d, t), disk)
             IN  /\ other.raised = NoError
                 /\ get_statistics(other.self) = get_statistics(store)
                 /\ other.self.chunks = store.chunks
                 /\ other.self.metadata = store.metadata
                 /\ \A q \in QueryVecs, k \in 1..MaxK :
                       search(other.self, q, k) = search(store, q, k)
    /\ (last.op = "load" /\ last.raised = NoError) =>
          /\ get_statistics(store) =
                [total_chunks |-> Len(disk.files.chunks_pkl),
                 dimension    |-> disk.files.config_json.dimension,
                 index_type   |-> disk.files.config_json.index_type]
          /\ store.chunks = disk.files.chunks_pkl
          /\ store.metadata = disk.files.metadata_pkl
          /\ store.index.xb = disk.files.index_faiss.xb

C6_Witness ==
    /\ last.op = "load" /\ last.raised = NoError
    /\ Len(store.chunks) = 2
    /\ store.metadata[2] = Meta2
    /\ store.index_type = "cosine"

\* C7: load of a directory whose saved dimension or metric differs from the
\* instance's raises, and leaves the instance's dimension and metric alone.
C7_LoadRejectsIncompatible ==
    (/\ last.op = "load"
     /\ disk.exists
     /\ \/ disk.files.config_json.dimension # last.arg.dimension
        \/ disk.files.config_json.index_type # last.arg.index_type) =>
        /\ last.raised # NoError
        /\ store.dimension = last.arg.dimension
        /\ store.index_type = last.arg.index_type

\* what the store's search returns for the query of the last retrieve call
LastSearch ==
    search(store, embed_text(cache, last.arg.query).embedding,
           EffectiveK(last.arg.k)).result

\* C8: under cosine, retrieve returns exactly the search results whose score
\* is >= threshold (none below it, none at or above it left out); under L2 it
\* returns every search result.
C8_ThresholdFilter ==
    (last.op = "retrieve" /\ last.raised = NoError) =>
        LET sr  == LastSearch
            th  == EffectiveThreshold(last.arg.threshold)
            res == last.result
        IN  /\ \A i \in 1..Len(res) :
                  /\ res[i].rank \in 0..(Len(sr.chunks) - 1)
                  /\ res[i].text = sr.chunks[res[i].rank + 1]
                  /\ res[i].score = sr.distances[res[i].rank + 1]
                  /\ res[i].metadata = sr.metadata[res[i].rank + 1]
            /\ \A i, j \in 1..Len(res) : i # j => res[i].rank # res[j].rank
            /\ store.index_type = "cosine" =>
                  /\ \A i \in 1..Len(res) : res[i].score >= th
                  /\ \A j \in 1..Len(sr.chunks) :
                        sr.distances[j] >= th =>
                           \E i \in 1..Len(res) : res[i].rank = j - 1
            /\ store.index_type = "L2" => Len(res) = Len(sr.chunks)

\* a score equal to the threshold is kept, a lower one is dropped
C8_Witness ==
    /\ last.op = "retrieve" /\ last.raised = NoError
    /\ store.index_type = "cosine"
    /\ Len(LastSearch.chunks) = 2
    /\ Len(last.result) = 1
    /\ last.result[1].score = EffectiveThreshold(last.arg.threshold)

\* C9: the list retrieve returns follows the index's rank order and the item
\* at position i (from 0) has rank i, for every metric and threshold.
C9_RankOrder ==
    (last.op = "retrieve" /\ last.raised = NoError) =>
        LET sr  == LastSearch
            res == last.result
        IN  /\ \A i \in 1..Len(res) :
                  /\ res[i].rank = i - 1
                  /\ i <= Len(sr.chunks)
                  /\ res[i].text = sr.chunks[i]
                  /\ res[i].score = sr.distances[i]
            /\ \A i \in 1..(Len(res) - 1) :
                  IF store.index_type = "cosine"
                  THEN res[i].score >= res[i + 1].score
                  ELSE res[i].score <= res[i + 1].score

C9_Witness ==
    /\ last.op = "retrieve" /\ last.raised = NoError
    /\ store.index_type = "L2"
    /\ ~last.arg.threshold.isNone /\ last.arg.threshold.v > 0
    /\ Len(last.result) = 2
    /\ last.result[1].score < last.arg.threshold.v
    /\ last.result[1].score < last.result[2].score
    /\ last.result[2].rank = 1

\* the per-query results the last retrieve_multi_query call merged
LastPerQuery ==
    RetrieveAll(store, cache, last.arg.queries, EffectiveK(last.arg.k)).result

\* score a is strictly better than score b under the store's metric
StrictlyBetter(a, b) == IF store.index_type = "cosine" THEN a > b ELSE a < b

\* C10: retrieve_multi_query returns at most k items with pairwise different
\* texts, best score first (descending for cosine, ascending for L2); each
\* returned item is the best-scored occurrence of its text among the
\* per-query results, and no text left out scores strictly better than a
\* returned one.
C10_MultiQueryMerge ==
    (last.op = "retrieve_multi_query" /\ last.raised = NoError) =>
        LET res == last.result
            all == LastPerQuery
        IN  /\ Len(res) <= EffectiveK(last.arg.k)
            /\ \A i, j \in 1..Len(res) : i # j => res[i].text # res[j].text
            /\ \A i \in 1..(Len(res) - 1) :
                  ~StrictlyBetter(res[i + 1].score, res[i].score)
            /\ \A i \in 1..Len(res) :
                  /\ res[i] \in Range(all)
                  /\ \A a \in Range(all) :
                        a.text = res[i].text => ~StrictlyBetter(a.score, res[i].score)
            /\ \A a \in Range(all) :
                  (\A i \in 1..Len(res) : res[i].text # a.text) =>
                     \A i \in 1..Len(res) : ~StrictlyBetter(a.score, res[i].score)

\* two queries return the same text with different scores, the merged list
\* keeps the better occurrence, and another text is cut off by k
C10_Witness ==
    /\ last.op = "retrieve_multi_query" /\ last.raised = NoError
    /\ store.index_type = "L2"
    /\ Len(last.arg.queries) = 2
    /\ Len(last.result) = 2
    /\ Len(LastPerQuery) = 4
    /\ \E a \in Range(LastPerQuery) :
          /\ a.text = last.result[1].text
          /\ a.score > last.result[1].score
    /\ \E a \in Range(LastPerQuery) :
          \A i \in 1..Len(last.result) : last.result[i].text # a.text

\* the items of list at the positions of K, in the list's order
RECURSIVE SubseqAt(_, _, _)
SubseqAt(list, K, i) ==
    IF i > Len(list) THEN <<>>
    ELSE (IF i \in K THEN <<list[i]>> ELSE <<>>) \o SubseqAt(list, K, i + 1)

\* Jaccard similarity of two texts is at most the threshold (cross-multiplied;
\* two texts without words are not similar)
JaccardAtMost(t1, t2, thr) ==
    Cardinality(get_words(t1) \cap get_words(t2)) * thr.den
        <= thr.num * Cardinality(get_words(t1) \cup get_words(t2))

\* K is the set of kept positions the claim describes
KeptPositions(chunks, thr, K) ==
    /\ (Len(chunks) > 0 => 1 \in K)
    /\ \A i \in 2..Len(chunks) :
          i \in K <=> \A j \in K : j < i => JaccardAtMost(chunks[i].text, chunks[j].text, thr)

\* C11: deduplicate_chunks keeps the first item, keeps a later item exactly
\* when its Jaccard similarity to every already-kept item is at most
\* overlap_threshold, returns the kept items in input order, and returns
\* the empty list for the empty list.
C11_DedupSelection ==
    last.op = "deduplicate_chunks" =>
        /\ (last.arg.chunks = <<>> => last.result = <<>>)
        /\ \E K \in SUBSET (1..Len(last.arg.chunks)) :
              /\ KeptPositions(last.arg.chunks, last.arg.overlap_threshold, K)
              /\ last.result = SubseqAt(last.arg.chunks, K, 1)

\* a later item is dropped as a near-duplicate that differs in case and
\* punctuation, and one at exactly the threshold is kept
C11_Witness ==
    /\ last.op = "deduplicate_chunks"
    /\ Len(last.arg.chunks) = 3
    /\ last.arg.overlap_threshold = Frac(2, 3)
    /\ last.arg.chunks[1].text # last.arg.chunks[2].text
    /\ Len(last.result) = 2
    /\ last.result[2] = last.arg.chunks[3]
    /\ Cardinality(get_words(last.result[1].text) \cap get_words(last.result[2].text)) = 2

\* the sum of the text lengths of the chunks
RECURSIVE TotalLength(_)
TotalLength(chunks) ==
    IF chunks = <<>> THEN 0 ELSE Len(Head(chunks).text) + TotalLength(Tail(chunks))

\* the score of a candidate, 0 when it has none
ScoreOf(c) == IF "score" \in DOMAIN c THEN c.score ELSE 0

\* perm lists the positions of chunks by score descending, ties in input order
IsScoreOrder(perm, chunks) ==
    /\ {perm[i] : i \in 1..Len(chunks)} = 1..Len(chunks)
    /\ \A i, j \in 1..Len(chunks) :
          i < j => \/ ScoreOf(chunks[perm[i]]) > ScoreOf(chunks[perm[j]])
                   \/ /\ ScoreOf(chunks[perm[i]]) = ScoreOf(chunks[perm[j]])
                      /\ perm[i] < perm[j]

\* the candidates sorted by score descending, ties in input order
Ranked(chunks) ==
    LET perm == CHOOSE f \in [1..Len(chunks) -> 1..Len(chunks)] : IsScoreOrder(f, chunks)
    IN  [i \in 1..Len(chunks) |-> chunks[perm[i]]]

\* the length of the longest prefix of ranked whose total length is <= max_length
FittingPrefix(ranked, max_length) ==
    CHOOSE m \in 0..Len(ranked) :
        /\ TotalLength(SubSeq(ranked, 1, m)) <= max_length
        /\ \A n \in (m + 1)..Len(ranked) :
              TotalLength(SubSeq(ranked, 1, n)) > max_length

LastTruncate == last.op = "truncate_to_fit"

\* C12 (as stated): the result of truncate_to_fit has total text length <=
\* max_length and is the longest prefix of the candidates, sorted by score
\* descending with ties in input order, whose running total is <= max_length.
C12_LongestPrefix ==
    LastTruncate =>
        LET ranked == Ranked(last.arg.chunks)
        IN  /\ TotalLength(last.result) <= last.arg.max_length
            /\ last.result = SubSeq(ranked, 1, FittingPrefix(ranked, last.arg.max_length))

\* C12 (amended): the result has total text length <= max_length and is the
\* longest fitting prefix of the sorted candidates, followed, only when that
\* prefix has total length 0 and a candidate remains, by that next candidate
\* cut to its first max_length characters; nothing behind the first
\* candidate that does not fit is accepted.
C12_LongestPrefixOrCut ==
    LastTruncate =>
        LET ranked == Ranked(last.arg.chunks)
            m      == FittingPrefix(ranked, last.arg.max_length)
            fit    == SubSeq(ranked, 1, m)
        IN  /\ TotalLength(last.result) <= last.arg.max_length
            /\ last.result =
                 IF m < Len(ranked) /\ TotalLength(fit) = 0
                 THEN Append(fit, [ranked[m + 1] EXCEPT
                                     !.text = SubSeq(@, 1, last.arg.max_length)])
                 ELSE fit

\* the sort reorders the candidates, two of them fit, and a third, shorter
\* one behind the first that does not fit is left out
C12_Witness ==
    /\ LastTruncate
    /\ Len(last.arg.chunks) = 3
    /\ Len(last.result) = 1
    /\ last.result[1] = last.arg.chunks[2]
    /\ Len(last.arg.chunks[1].text) = 3
    /\ Len(last.arg.chunks[3].text) = 2
    /\ ScoreOf(last.arg.chunks[2]) > ScoreOf(last.arg.chunks[1])
    /\ ScoreOf(last.arg.chunks[1]) > ScoreOf(last.arg.chunks[3])
    /\ last.arg.max_length = 4
    /\ Len(last.result[1].text) = 2

\* C13: with at least one candidate and max_length > 0 the result of
\* truncate_to_fit is not empty, and when the highest-scored candidate alone
\* is longer than max_length the result is that candidate alone, its text
\* cut to the first max_length characters and its other fields unchanged.
C13_NeverEmpty ==
    (LastTruncate /\ Len(last.arg.chunks) > 0 /\ last.arg.max_length > 0) =>
        LET top == Ranked(last.arg.chunks)[1]
        IN  /\ Len(last.result) >= 1
            /\ Len(top.text) > last.arg.max_length =>
                  /\ Len(last.result) = 1
                  /\ last.result[1].text = SubSeq(top.text, 1, last.arg.max_length)
                  /\ DOMAIN last.result[1] = DOMAIN top
                  /\ \A f \in DOMAIN top \ {"text"} : last.result[1][f] = top[f]

\* the highest-scored candidate is not the first of the input, is longer
\* than the budget and comes back cut
C13_Witness ==
    /\ LastTruncate
    /\ Len(last.arg.chunks) = 2
    /\ last.arg.max_length = 2
    /\ ScoreOf(last.arg.chunks[2]) > ScoreOf(last.arg.chunks[1])
    /\ Len(last.arg.chunks[2].text) = 3
    /\ Len(last.arg.chunks[1].text) = 2
    /\ Len(last.result) = 1
    /\ last.result[1].text = <<"a", "b">>
    /\ last.result[1].score = 1

LastChunkByWords == last.op = "chunk_by_words"

\* the words of each chunk
ChunkWords(chunks) == [i \in 1..Len(chunks) |-> split(chunks[i])]

\* the last n items of a list
LastN(list, n) == SubSeq(list, Len(list) - n + 1, Len(list))

\* the first chunk's words followed by every later chunk's words without
\* its first ov words
RECURSIVE Deoverlapped(_, _, _)
Deoverlapped(cw, i, ov) ==
    IF i > Len(cw) THEN <<>>
    ELSE (IF i = 1 THEN cw[1] ELSE SubSeq(cw[i], ov + 1, Len(cw[i])))
         \o Deoverlapped(cw, i + 1, ov)

\* C14: for a chunker with 0 <= overlap < chunk_size and a text of more than
\* chunk_size words, every chunk of chunk_by_words after the first begins
\* with the last `overlap` words of the chunk before it, every chunk but the
\* last has chunk_size words, and the first chunk followed by the later
\* chunks without their first `overlap` words is the text's word sequence.
C14_WordOverlap ==
    (/\ LastChunkByWords
     /\ last.arg.self.overlap >= 0
     /\ Len(split(last.arg.text)) > last.arg.self.chunk_size) =>
        LET cw == ChunkWords(last.result)
            cs == last.arg.self.chunk_size
            ov == last.arg.self.overlap
        IN  /\ Len(cw) > 1
            /\ \A i \in 2..Len(cw) :
                  /\ Len(cw[i]) >= ov
                  /\ SubSeq(cw[i], 1, ov) = LastN(cw[i - 1], ov)
            /\ \A i \in 1..(Len(cw) - 1) : Len(cw[i]) = cs
            /\ Deoverlapped(cw, 1, ov) = split(last.arg.text)

\* three overlapping windows over five words, the last one short
C14_Witness ==
    /\ LastChunkByWords
    /\ last.arg.self = [chunk_size |-> 3, overlap |-> 2]
    /\ Len(split(last.arg.text)) = 5
    /\ Len(last.result) = 3
    /\ last.result[1] # last.result[2]
    /\ Len(last.arg.text) > 9

\* C15: constructing a TextChunker with overlap >= chunk_size raises, and
\* the chunker in use never has overlap >= chunk_size.
C15_OverlapRejected ==
    /\ (~chunker.isNone => chunker.v.overlap < chunker.v.chunk_size)
    /\ (last.op = "TextChunker" /\ last.arg.overlap >= last.arg.chunk_size)
          => last.raised = "ValueError"

\* a constructor call with overlap = chunk_size has raised and the chunker
\* built before is still the one in use
C15_Witness ==
    /\ last.op = "TextChunker"
    /\ last.arg.overlap = last.arg.chunk_size
    /\ last.raised = "ValueError"
    /\ ~chunker.isNone

\* out is text with every run of whitespace replaced by one space and no
\* whitespace at its ends
IsNormalized(out, text) ==
    /\ split(out) = split(text)
    /\ \A i \in 1..Len(out) : out[i] \in WhitespaceChars =>
          /\ out[i] = " "
          /\ i > 1 /\ i < Len(out)
          /\ out[i + 1] \notin WhitespaceChars

\* C16: chunk_by_words returns one chunk, the whitespace-normalized input,
\* for a text of 1..chunk_size words, and the empty list for an empty or
\* whitespace-only text.
C16_ShortText ==
    LastChunkByWords =>
        LET n == Len(split(last.arg.text))
        IN  /\ (n >= 1 /\ n <= last.arg.self.chunk_size) =>
                  /\ Len(last.result) = 1
                  /\ IsNormalized(last.result[1], last.arg.text)
            /\ n = 0 => last.result = <<>>

\* a short text with padding and a newline between its words comes back as
\* one normalized chunk
C16_Witness ==
    /\ LastChunkByWords
    /\ Len(split(last.arg.text)) = 2
    /\ last.arg.self.chunk_size = 2
    /\ Len(last.result) = 1
    /\ Len(last.result[1]) = 3
    /\ Len(last.arg.text) = 6

LastChunkBySentences == last.op = "chunk_by_sentences"

\* the sentences i..Len(S) grouped into runs, a run ending behind every
\* position of K; cur is the run being read
RECURSIVE Runs(_, _, _, _)
Runs(S, K, i, cur) ==
    IF i > Len(S) THEN (IF cur = <<>> THEN <<>> ELSE <<cur>>)
    ELSE IF i \in K
         THEN <<Append(cur, S[i])>> \o Runs(S, K, i + 1, <<>>)
         ELSE Runs(S, K, i + 1, Append(cur, S[i]))

\* the number of words of a run of sentences
RECURSIVE RunWords(_)
RunWords(run) == IF run = <<>> THEN 0 ELSE Len(split(Head(run))) + RunWords(Tail(run))

\* C17: the chunks of chunk_by_sentences are the sentences of the text
\* grouped into consecutive non-empty runs, each sentence whole and exactly
\* once; a run has more than max_words words only if it is one sentence, and
\* a run ends before a sentence only if that sentence would take it over
\* max_words.
C17_WholeSentences ==
    (LastChunkBySentences /\ strip(last.arg.text) # <<>>) =>
        LET S == split_sentences(strip(last.arg.text))
        IN  \E K \in SUBSET (1..(Len(S) - 1)) :
              LET runs == Runs(S, K, 1, <<>>)
              IN  /\ Len(last.result) = Len(runs)
                  /\ \A i \in 1..Len(runs) :
                        /\ runs[i] # <<>>
                        /\ last.result[i] # <<>>
                        /\ last.result[i] = join(<<" ">>, runs[i])
                        /\ RunWords(runs[i]) > last.arg.max_words => Len(runs[i]) = 1
                        /\ i < Len(runs) =>
                              RunWords(runs[i]) + Len(split(runs[i + 1][1]))
                                  > last.arg.max_words

\* two sentences share a chunk, a sentence longer than max_words stands
\* alone in the next one
C17_Witness ==
    /\ LastChunkBySentences
    /\ last.arg.max_words = 2
    /\ Len(split_sentences(strip(last.arg.text))) = 3
    /\ Len(last.result) = 2
    /\ Len(split(last.result[1])) = 2
    /\ Len(split(last.result[2])) = 3

\* C18: within one embedder, embed_text returns for a non-blank text the
\* vector the cache holds for it, a cached vector is never replaced or
\* dropped by embed_text, embed_batch or retrieval, and the cache holds one
\* vector per text, so every call on the same text returns the same vector;
\* for a blank text embed_text returns the zero vector of the embedding
\* dimension and leaves the cache as it is.
C18_EmbedDeterministic ==
    [][/\ \A e \in cache : e \in cache'
       /\ \A e1, e2 \in cache' : e1[1] = e2[1] => e1 = e2
       /\ \A e \in cache' : ~IsBlank(e[1])
       /\ last'.op = "embed_text" =>
             IF IsBlank(last'.arg.text)
             THEN /\ last'.result = [i \in 1..get_embedding_dimension |-> 0]
                  /\ cache' = cache
             ELSE <<last'.arg.text, last'.result>> \in cache'
      ]_vars

\* embed_text is called again on a text embedded before, after a retrieval
\* on a filled store has put another text in the cache
C18_Witness ==
    /\ last.op = "embed_text"
    /\ last.arg.text = "q1"
    /\ last.arg.cached
    /\ CacheHas(cache, "q2")
    /\ Len(store.chunks) > 0

\* the calls and waits the claim describes for m failed attempts: a failed
\* call each, with a wait of backoff * 2^i behind the i-th of them (counted
\* from 0) unless it is the n-th attempt
RECURSIVE FailedAttempts(_, _, _, _)
FailedAttempts(i, m, n, backoff) ==
    IF i >= m THEN <<>>
    ELSE <<[ev |-> "generate", ok |-> FALSE]>>
         \o (IF i + 1 < n THEN <<[ev |-> "sleep", t |-> backoff * (2 ^ i)]>> ELSE <<>>)
         \o FailedAttempts(i + 1, m, n, backoff)

\* the generate events among the events
Calls(events) == SelectSeq(events, LAMBDA e : e.ev = "generate")

\* C19: generate_with_retry with max_retries = n >= 1 calls generate at most
\* n times; it returns the result of the first successful call and makes no
\* further call; after the i-th failed attempt (from 0) it waits
\* backoff * 2^i, except after the n-th attempt; it raises exactly when n
\* attempts in a row have failed.
C19_RetryBackoff ==
    (last.op = "generate_with_retry" /\ last.arg.max_retries >= 1) =>
        LET n  == last.arg.max_retries
            ok == {j \in 1..n : last.arg.outcomes[j]}
        IN  /\ Len(Calls(last.events)) <= n
            /\ IF ok # {}
               THEN LET first == CHOOSE j \in ok : \A j2 \in ok : j <= j2
                    IN  /\ last.raised = NoError
                        /\ last.result = Some([response |-> first])
                        /\ last.events =
                             Append(FailedAttempts(0, first - 1, n, last.arg.backoff),
                                    [ev |-> "generate", ok |-> TRUE])
               ELSE /\ last.raised = "RuntimeError"
                    /\ last.result = None
                    /\ last.events = FailedAttempts(0, n, n, last.arg.backoff)

\* three attempts all fail: waits of 3 and 6 between them, none after the
\* last, then the error
C19_Witness ==
    /\ last.op = "generate_with_retry"
    /\ last.arg.max_retries = 3
    /\ last.arg.backoff = 3
    /\ last.raised = "RuntimeError"
    /\ last.events = <<[ev |-> "generate", ok |-> FALSE], [ev |-> "sleep", t |-> 3],
                       [ev |-> "generate", ok |-> FALSE], [ev |-> "sleep", t |-> 6],
                       [ev |-> "generate", ok |-> FALSE]>>

\* C20: in the API server no search or statistics read observes the shared
\* store in the middle of an add: whenever a query, stats or health request
\* reads the store, the number of vectors equals the number of chunk texts
\* and the number of metadata records.
C20_ReadersBetweenWrites ==
    last.op \in {"query", "stats", "health"} =>
        /\ last.observed.ntotal = last.observed.chunks
        /\ last.observed.ntotal = last.observed.metadata

(* ---- prompt rendering ---- *)

\* sub occurs in s as a run of consecutive elements
Contains(s, sub) ==
    \E i \in 0..(Len(s) - Len(sub)) : SubSeq(s, i + 1, i + Len(sub)) = sub

LastAssemble == last.op = "assemble_prompt"

\* what the prompt holds in the place of the template's {context}
ContextSection(prompt, template, query) ==
    SubSeq(prompt, Len(template.head) + 1,
           Len(prompt) - Len(template.mid) - Len(query) - Len(template.tail))

\* C21: assemble_prompt given an empty list of retrieved chunks does not
\* fail: it returns a prompt rendered from the template that contains the
\* query and, in the place of the context, a statement that no context is
\* available (the place of the context is not left empty).
C21_NoContextPrompt ==
    (LastAssemble /\ last.arg.retrieved_chunks = <<>>) =>
        /\ last.raised = NoError
        /\ Contains(last.result, last.arg.query)
        /\ ContextSection(last.result, TemplateGet(last.arg.template_name),
                          last.arg.query) # <<>>

LastConversational == last.op = "create_conversational_prompt"

\* the lines of s: the runs of elements closed by a "\n" element
RECURSIVE Lines(_, _, _)
Lines(s, i, cur) ==
    IF i > Len(s) THEN (IF cur = <<>> THEN <<>> ELSE <<cur>>)
    ELSE IF s[i] = "\n" THEN <<cur>> \o Lines(s, i + 1, <<>>)
    ELSE Lines(s, i + 1, Append(cur, s[i]))

\* the role a message is shown with: its own, "user" if it has none
ShownRole(msg) ==
    IF "role" \in DOMAIN msg THEN msg.role ELSE <<"u", "s", "e", "r">>

\* up is text with every lower-case letter replaced by its capital
IsUpperOf(up, text) ==
    /\ Len(up) = Len(text)
    /\ \A i \in 1..Len(text) :
          IF \E j \in 1..26 : LowerLetters[j] = text[i]
          THEN \E j \in 1..26 : LowerLetters[j] = text[i] /\ up[i] = UpperLetters[j]
          ELSE up[i] = text[i]

\* C22: create_conversational_prompt with no history (None or an empty list)
\* returns exactly the string assemble_prompt returns for the same query and
\* chunks; with a history, the result ends with that string and, before it,
\* has one `ROLE: content` line per prior turn, in the order of the history,
\* the role in upper case.
C22_ConversationalPrompt ==
    LastConversational =>
        LET ap == assemble_prompt(last.arg.self, last.arg.query,
                                  last.arg.retrieved_chunks, "default")
            h  == last.arg.conversation_history
            n  == Len(last.result) - Len(ap)
        IN  /\ n >= 0
            /\ SubSeq(last.result, n + 1, Len(last.result)) = ap
            /\ (h.isNone \/ h.v = <<>>) => n = 0
            /\ (~h.isNone /\ h.v # <<>>) =>
                  /\ n >= 2
                  /\ last.result[1] = "CONVERSATION HISTORY:\n"
                  /\ last.result[n] = "\nCURRENT TASK:\n"
                  /\ LET lines == Lines(SubSeq(last.result, 2, n - 1), 1, <<>>)
                     IN  /\ Len(lines) = Len(h.v)
                         /\ \A i \in 1..Len(h.v) :
                               LET role == ShownRole(h.v[i])
                                   line == lines[i]
                               IN  /\ Len(line) >= Len(role) + 1
                                   /\ IsUpperOf(SubSeq(line, 1, Len(role)), role)
                                   /\ line[Len(role) + 1] = ": "
                                   /\ SubSeq(line, Len(role) + 2, Len(line))
                                        = (IF "content" \in DOMAIN h.v[i]
                                           THEN h.v[i].content ELSE <<>>)

\* a two-turn history with a lower-case role in front of a prompt with context
C22_Witness ==
    /\ LastConversational
    /\ ~last.arg.conversation_history.isNone
    /\ Len(last.arg.conversation_history.v) = 2
    /\ last.arg.conversation_history.v[1] # last.arg.conversation_history.v[2]
    /\ "role" \in DOMAIN last.arg.conversation_history.v[1]
    /\ last.arg.retrieved_chunks # <<>>
    /\ Len(last.result) > Len(assemble_prompt(last.arg.self, last.arg.query,
                                             last.arg.retrieved_chunks, "default"))

\* the header the claim gives a chunk without source metadata
ChunkHeader(i, s) ==
    <<"[Chunk ">> \o IntStr(i) \o <<" - Score: ">> \o Format3f(s) \o <<"]">>

HasSource(chunk) ==
    "metadata" \in DOMAIN chunk /\ \E e \in chunk.metadata : e[1] = "source"

\* C23: the prompt assemble_prompt renders contains the query and, for every
\* chunk that fits the budget, the chunk's text and its header; a chunk
\* without source metadata at 1-based position i of the score-descending
\* order, with score s, has the header `[Chunk i - Score: s]`, s printed
\* with three decimals.
C23_ChunkHeaders ==
    LastAssemble =>
        LET valid == truncate_to_fit(last.arg.retrieved_chunks,
                                     last.arg.self.max_context_length)
        IN  /\ Contains(last.result, last.arg.query)
            /\ \A i \in 1..Len(valid) :
                  /\ Contains(last.result, valid[i].text)
                  /\ ~HasSource(valid[i]) =>
                        Contains(last.result,
                                 ChunkHeader(i, ScoreKey(valid[i])))

(* ---- arrays handed to the store ---- *)

\* C27: add and search leave the arrays they are handed as they were, also
\* in a cosine store, which normalises in place the arrays it works on: the
\* buffer of the caller's embeddings stores after add what it stored before,
\* the buffer of the caller's query vector stores after search what it
\* stored before, and after any sequence of retrieve calls the embedder's
\* cache, whose arrays are the very objects handed to search, holds for
\* every query text the vector the model computed for it, not its
\* normalised form.
C27_CallerArraysKept ==
    /\ last.op = "add" => last.after = last.arg.embeddings
    /\ last.op = "search" => last.after = last.arg.query_embedding
    /\ \A e \in cache : e[2] = ModelEncode(e[1])

\* a cosine store was searched through retrieve with a cached query vector,
\* and the row FAISS was searched with is not the vector that was handed in:
\* the normalisation did write into the array search worked on
C27_Witness ==
    /\ last.op = "retrieve"
    /\ last.raised = NoError
    /\ last.result # <<>>
    /\ store.index_type = "cosine"
    /\ CacheHas(cache, last.arg.query)
    /\ SearchedQuery(store, CacheGet(cache, last.arg.query))
          # CacheGet(cache, last.arg.query)

(* ---- the memory system ---- *)

LastQuery == last.op = "query"

\* C24: during ExternalMemorySystem.query a failure of the generation backend
\* is retried before the error reaches the caller: when the provider fails
\* on the first call and answers on the second, query makes that second call
\* and returns an answer.
C24_QueryRetries ==
    (LastQuery /\ ~last.arg.outcomes[1] /\ last.arg.outcomes[2]) =>
        /\ last.raised = NoError
        /\ last.calls >= 2

\* C28: every chunk ExternalMemorySystem.query reports in `sources` is one of
\* the chunks the prompt was rendered from, with its whole text: none of the
\* sources was dropped or cut by truncation.
C28_SourcesInPrompt ==
    (LastQuery /\ last.raised = NoError) =>
        LET valid == truncate_to_fit(last.result.sources,
                                     max_context_length_default \div CharScale)
        IN  \A i \in 1..Len(last.result.sources) :
               /\ \E j \in 1..Len(valid) : valid[j] = last.result.sources[i]
               /\ Contains(last.prompt, last.result.sources[i].text)

\* ingest_document returned, called directly or by ingest_file
LastIngestOk ==
    last.op \in {"ingest_document", "ingest_file"} /\ last.raised = NoError

\* C29: after every successful ingest_document the directory at
\* persistence_path holds exactly the chunks, metadata and vectors held in
\* memory; chunks_created equals embeddings_stored and the stored count grew
\* by that number; a new ExternalMemorySystem with the same configuration
\* loads the directory and reports the same total_chunks.
C29_IngestPersisted ==
    LastIngestOk =>
        /\ disk.exists
        /\ disk.files.chunks_pkl = store.chunks
        /\ disk.files.metadata_pkl = store.metadata
        /\ disk.files.index_faiss.xb = store.index.xb
        /\ last.result.chunks_created = last.result.embeddings_stored
        /\ Len(store.chunks) = last.before + last.result.chunks_created
        /\ Len(store.index.xb) = Len(store.chunks)
        /\ LET new == ExternalMemorySystem(chunker.v, disk, FALSE)
           IN  /\ new.raised = NoError
               /\ get_statistics(new.self.vector_store).total_chunks
                    = get_statistics(store).total_chunks
               /\ new.self.vector_store.chunks = store.chunks

\* a document of two chunks was added to a store that held chunks already
C29_Witness ==
    /\ LastIngestOk
    /\ last.before > 0
    /\ last.result.chunks_created = 2
    /\ Len(store.chunks) = last.before + 2

(* ---- retrieval into a budget ---- *)

LastRetrieveAssemble == last.op = "retrieve_assemble"

RankSet(chunks) == {chunks[i].rank : i \in 1..Len(chunks)}

\* C30: when the chunks retrieve returned do not all fit the context budget,
\* the chunks assemble_prompt keeps are the ones the index ranked best, under
\* the L2 metric (smallest distances) and under cosine (highest
\* similarities): no chunk is kept while a better-ranked one is left out.
C30_BestRankedKept ==
    (LastRetrieveAssemble /\ TotalLength(last.retrieved) > last.arg.max_context_length) =>
        \A r \in RankSet(last.kept) :
            \A q \in RankSet(last.retrieved) : q < r => q \in RankSet(last.kept)

(* ---- de-duplication, again ---- *)

\* C25: deduplicate_chunks is idempotent and its output is pairwise
\* non-duplicate: applied to its own output with the same threshold it
\* returns that output unchanged, and any two items of the output whose word
\* sets are not both empty have a Jaccard similarity of at most
\* overlap_threshold.
C25_DedupIdempotent ==
    last.op = "deduplicate_chunks" =>
        /\ deduplicate_chunks(last.result, last.arg.overlap_threshold) = last.result
        /\ \A i, j \in 1..Len(last.result) :
              (/\ i < j
               /\ get_words(last.result[i].text) \cup get_words(last.result[j].text) # {})
              => JaccardAtMost(last.result[i].text, last.result[j].text,
                               last.arg.overlap_threshold)

\* an item was dropped, and two kept items share a word
C25_Witness ==
    /\ last.op = "deduplicate_chunks"
    /\ last.arg.overlap_threshold = Frac(4, 5)
    /\ Len(last.result) >= 2
    /\ Len(last.result) < Len(last.arg.chunks)
    /\ \E i, j \in 1..Len(last.result) :
          /\ i < j
          /\ get_words(last.result[i].text) \cap get_words(last.result[j].text) # {}

(* ---- word windows, again ---- *)

\* the last word position the i-th window covers, the windows starting
\* `step` words apart
WindowEnd(cw, i, step) == (i - 1) * step + Len(cw[i])

\* C26: a TextChunker that was constructed advances its window by
\* chunk_size - overlap >= 1 words, so chunk_by_words ends after at most one
\* chunk per word: the i-th chunk is the window of the text's words that
\* starts (i - 1) * (chunk_size - overlap) words in, and for overlap >= 0
\* every chunk after the first reaches a word no earlier chunk contains and
\* the final chunk has more than `overlap` words.
C26_WindowsAdvance ==
    /\ ~chunker.isNone => chunker.v.chunk_size - chunker.v.overlap >= 1
    /\ LastChunkByWords =>
          LET words == split(last.arg.text)
              cw    == ChunkWords(last.result)
              step  == last.arg.self.chunk_size - last.arg.self.overlap
          IN  /\ Len(last.result) <= Len(words)
              /\ \A i \in 1..Len(cw) :
                    cw[i] = SubSeq(words, (i - 1) * step + 1, WindowEnd(cw, i, step))
              /\ last.arg.self.overlap >= 0 =>
                    /\ \A i \in 2..Len(cw) :
                          WindowEnd(cw, i, step) > WindowEnd(cw, i - 1, step)
                    /\ Len(cw) >= 2 => Len(cw[Len(cw)]) > last.arg.self.overlap

\* windows of two words one word apart whose last window ends at the last word
C26_Witness ==
    /\ LastChunkByWords
    /\ last.arg.self = [chunk_size |-> 2, overlap |-> 1]
    /\ Len(split(last.arg.text)) = 4
    /\ Len(last.result) = 3
    /\ Len(split(last.result[3])) = 2

====
